---- MODULE Spec2Model ----
(***************************************************************************)
(* State-machine model of the system-information cache of QC-Client-rs:    *)
(* SystemInfoCollector (two cache tiers, one mutex, one background update  *)
(* thread) and the exported C wrapper around it.                           *)
(*                                                                         *)
(* Time is the steady_clock reading in milliseconds.  A cache value is     *)
(* abstracted to the refresh pass that produced it and the shape of the    *)
(* adapter's result (ok / default / partial / json null).                  *)
(*                                                                         *)
(* Environment: the exported calls are issued by the client threads in     *)
(* Clients.  InitializeCache and CleanupSystemInfo are issued by one        *)
(* controlling client, one at a time; GetSystemInfoJson may be called at   *)
(* any time by any client.                                                 *)
(*                                                                         *)
(* Three specifications share the actions:                                 *)
(*   Spec        one client, any one adapter invocation may fail;          *)
(*   SpecShared  several clients, the adapters succeed;                    *)
(*   SpecTimed   the update thread under a 100 ms clock with bounded       *)
(*               iteration latency.                                        *)
(***************************************************************************)
EXTENDS Integers, Sequences, FiniteSets, TLC

\* ------------------------------------------------------------------ bounds
MaxTicks == 1        \* number of clock advances explored
MaxPass == 3         \* number of refresh passes (adapter invocation rounds) explored
MaxFineTicks == 14   \* number of 100 ms clock advances explored by the timed specification
MaxLate == 1         \* how many 100 ms steps a loop iteration may take beyond its sleep

\* ------------------------------------------------------- program constants
STATIC_CACHE_DURATION_SEC == 60
SlowIntervalSec == 1
LoopSleepMs == 100

\* Clock advances explored by Tick (ms): the slow interval and the static TTL.
TickSteps == {1000, 60000}

Clients == {"t1", "t2"}
Controller == "t1"   \* the client that issues the lifecycle calls
BgThread == "bg"
Free == "free"

\* ------------------------------------------------------------- categories
StaticKeys == <<"deviceId", "deviceName", "motherboard", "gpu", "audio">>
FastKeys == <<"storage", "battery", "network">>
SlowKeys == <<"cpu", "memory">>

Range(s) == {s[i] : i \in DOMAIN s}
StaticSet == Range(StaticKeys)
FastSet == Range(FastKeys)
SlowSet == Range(SlowKeys)
DynamicSet == FastSet \cup SlowSet
Keys == StaticSet \cup DynamicSet

\* ------------------------------------------------------------ json values
\* A value is the pass that wrote it and the shape of the adapter's result.
Absent == [pass |-> 0, kind |-> "absent"]
Val(p, kind) == [pass |-> p, kind |-> kind]

\* A default-constructed json (null): no key.
NullJson == [k \in Keys |-> Absent]

\* json::empty(): true for null and for an object without keys.
Empty(j) == \A k \in Keys : j[k].kind = "absent"

\* json::contains(key).  A key holding json null is contained.
Contains(j, k) == j[k].kind # "absent"

\* cachedXInfo[key] = value
SetKey(j, k, v) == [j EXCEPT ![k] = v]

\* json::merge_patch (RFC 7386): a patch that is not an object replaces the
\* target; a null member of the patch erases the key; any other member
\* replaces the target's member.
merge_patch(target, patch) ==
    IF Empty(patch) THEN patch
    ELSE [k \in Keys |->
            IF patch[k].kind = "absent" THEN target[k]
            ELSE IF patch[k].kind = "null" THEN Absent
            ELSE patch[k]]

\* --------------------------------------------------------------- adapters
\* What one adapter invocation can do: the shape of the value it returns,
\* whether it reports the fault through logError, and the exception that
\* leaves it ("std": a std::exception, "other": any other exception type).
Outcome(kind, logs, throws) == [kind |-> kind, logs |-> logs, throws |-> throws]
Ok == Outcome("ok", FALSE, "none")

\* try { WMI ... hash } catch (std::exception) { logError; return computer name }
\* An exception that is no std::exception (_com_error of _bstr_t) leaves it.
getDeviceId ==
    {Ok, Outcome("default", TRUE, "none"), Outcome("absent", FALSE, "other")}

\* No try block: "Unknown" when GetComputerNameA fails; an exception of
\* sanitizeString leaves the adapter.
getDeviceName ==
    {Ok, Outcome("default", FALSE, "none"), Outcome("absent", FALSE, "std")}

\* Defaults "N/A", returned when a std::exception is caught (and logged);
\* other exceptions leave the adapter.
getMotherboardInfo ==
    {Ok, Outcome("default", TRUE, "none"), Outcome("absent", FALSE, "other")}

\* List adapters: an empty array when WMI is unavailable (if (!pSvc) return);
\* the entries pushed so far when a std::exception is caught (and logged);
\* other exceptions leave the adapter.
ListAdapter ==
    {Ok, Outcome("default", FALSE, "none"), Outcome("partial", TRUE, "none"),
     Outcome("absent", FALSE, "other")}
getGPUInfo == ListAdapter
getAudioInfo == ListAdapter
getStorageInfo == ListAdapter
getCPUInfo == ListAdapter

\* The usage figures are set first; the slots are missing when a
\* std::exception is caught; other exceptions leave the adapter.
getMemoryInfo ==
    {Ok, Outcome("partial", TRUE, "none"), Outcome("absent", FALSE, "other")}

\* Defaults (desktop) unless GetSystemPowerStatus succeeds.
getBatteryInfo == {Ok, Outcome("default", FALSE, "none")}

\* No try block: json null when malloc fails (return result;), an exception
\* of the string/json code leaves it.
getNetworkInfo ==
    {Ok, Outcome("null", FALSE, "none"), Outcome("absent", FALSE, "std")}

AdapterOutcomes(k) ==
    CASE k = "deviceId" -> getDeviceId
      [] k = "deviceName" -> getDeviceName
      [] k = "motherboard" -> getMotherboardInfo
      [] k = "gpu" -> getGPUInfo
      [] k = "audio" -> getAudioInfo
      [] k = "storage" -> getStorageInfo
      [] k = "battery" -> getBatteryInfo
      [] k = "network" -> getNetworkInfo
      [] k = "cpu" -> getCPUInfo
      [] k = "memory" -> getMemoryInfo

\* The adapter results of one run over `keys` in which at most one adapter
\* does something else than return normally.
AllOk(keys) == [i \in DOMAIN keys |-> Ok]

OneFault(keys) ==
    UNION {{[AllOk(keys) EXCEPT ![i] = o] : o \in AdapterOutcomes(keys[i])} :
              i \in DOMAIN keys}

Faulty(c) == {i \in DOMAIN c : c[i] # Ok}

\* Run the adapters of `keys` in order, writing each result under its key
\* (cachedInfo["k"] = getK();) until one throws.
RECURSIVE Collect(_, _, _, _, _)
Collect(keys, c, i, tier, p) ==
    IF i > Len(keys)
    THEN [tier |-> tier, thrown |-> "none", logged |-> FALSE]
    ELSE IF c[i].throws # "none"
    THEN [tier |-> tier, thrown |-> c[i].throws, logged |-> FALSE]
    ELSE LET rest == Collect(keys, c, i + 1, SetKey(tier, keys[i], Val(p, c[i].kind)), p)
         IN [rest EXCEPT !.logged = rest.logged \/ c[i].logs]

\* std::chrono::duration_cast<std::chrono::seconds>(d).count()
Seconds(ms) == ms \div 1000

\* ------------------------------------------------------------------ state
VARIABLES
    now,                \* steady_clock::now() in ms
    ticks,              \* clock advances so far
    cacheMutex,         \* owner of SystemInfoCollector::cacheMutex, or Free
    cachedStaticInfo,
    cachedDynamicInfo,
    lastStaticUpdate,
    lastSlowUpdate,     \* function-local static of updateSlowData; < 0: not yet initialised
    running,            \* std::atomic<bool> running
    joinable,           \* updateThread.joinable()
    bgpc,               \* position of updateDynamicDataThread
    wakeAt,             \* end of the thread's sleep_for
    g_errorCode,
    terminated,         \* std::terminate was called
    pc,                 \* position of each client thread
    tnow,               \* getSystemInfo's local `now`
    info,               \* getSystemInfo's local `info`: the record handed back
    ret,                \* what the last exported call of each client handed back
    pass,               \* the refresh pass each thread is running
    passes,             \* refresh passes started so far
    mayFault,           \* an adapter may still fail (at most one does)
    passLimit,          \* number of refresh passes explored
    call,               \* history of the current (or last) call of each client
    hist,               \* history of the system
    g_callbackMutex,    \* owner of g_callbackMutex, or Free
    g_callback,         \* the registered push callback
    g_lastError,        \* the last-error message
    g_logCallback,      \* the registered log callback
    logSeen,            \* how the log callback was last invoked
    g_logMutex,         \* owner of g_logMutex, or Free
    g_debugMode,        \* std::atomic<bool> g_debugMode
    arg,                \* the inputs of the correlation function under study
    result              \* what that function returned

vars == <<now, ticks, cacheMutex, cachedStaticInfo, cachedDynamicInfo,
          lastStaticUpdate, lastSlowUpdate, running, joinable, bgpc, wakeAt,
          g_errorCode, terminated, pc, tnow, info, ret, pass, passes, mayFault,
          passLimit, call, hist, g_callbackMutex, g_callback, g_lastError,
          g_logCallback, logSeen, g_logMutex, g_debugMode, arg, result>>

cacheVars == <<cachedStaticInfo, cachedDynamicInfo, lastStaticUpdate,
               lastSlowUpdate>>
clockVars == <<now, ticks>>
threadVars == <<running, joinable, bgpc, wakeAt, terminated>>
clientVars == <<pc, tnow, info, ret, call>>
envVars == <<passLimit, arg, result>>
pushVars == <<envVars, g_callbackMutex, g_callback>>
wrapVars == <<pushVars, g_lastError>>
sinkVars == <<g_logCallback, logSeen, g_logMutex, g_debugMode>>
coreVars == <<now, ticks, cacheMutex, cachedStaticInfo, cachedDynamicInfo,
              lastStaticUpdate, lastSlowUpdate, running, joinable, bgpc, wakeAt,
              g_errorCode, terminated, pc, tnow, info, ret, pass, passes,
              mayFault, passLimit, call, hist, g_callbackMutex, g_callback,
              g_lastError, arg, result>>

Threads == Clients \cup {BgThread}

NoCall == [op |-> "none", beforeInit |-> FALSE, afterInit |-> FALSE,
           expired |-> FALSE,
           refreshed |-> FALSE, faulted |-> FALSE, logged |-> FALSE,
           midIteration |-> FALSE, afterShutdown |-> FALSE,
           floor |-> [k \in DynamicSet |-> 0],
           gen |-> 0,
           callback |-> "null", invoked |-> 0]

\* No correlation function is under study.
None == <<>>

\* The static members of the collector and the globals of the wrapper after
\* static initialisation.
StaticCollector ==
    /\ now = 0
    /\ ticks = 0
    /\ cacheMutex = Free
    /\ cachedStaticInfo = NullJson
    /\ cachedDynamicInfo = NullJson
    /\ lastStaticUpdate = 0
    /\ lastSlowUpdate = -1
    /\ running = TRUE
    /\ joinable = FALSE
    /\ bgpc = "none"
    /\ wakeAt = 0
    /\ g_errorCode = 0
    /\ terminated = FALSE
    /\ pc = [t \in Clients |-> "idle"]
    /\ tnow = [t \in Clients |-> 0]
    /\ info = [t \in Clients |-> NullJson]
    /\ ret = [t \in Clients |-> "none"]
    /\ pass = [t \in Threads |-> 0]
    /\ passes = 0
    /\ call = [t \in Clients |-> NoCall]
    /\ hist = [initCalled |-> FALSE, initReturned |-> FALSE,
               shutdownReturned |-> FALSE, stopped |-> FALSE,
               ttlRefresh |-> FALSE,
               fastAt |-> 0, slowAt |-> -1,
               staticGen |-> 0,
               hwm |-> [k \in DynamicSet |-> 0],
               lastStatic |-> [k \in StaticSet |-> Absent], lastGen |-> 0]
    /\ g_callbackMutex = Free
    /\ g_callback = "null"
    /\ g_lastError = ""

\* The static members and globals after static initialisation: no log
\* callback is installed.
StaticInit ==
    /\ StaticCollector
    /\ g_logCallback = "null"
    /\ logSeen = "none"
    /\ g_logMutex = Free
    /\ g_debugMode = FALSE

\* The state after the collector singleton is constructed.
Constructed == StaticInit /\ arg = None /\ result = None

\* Any one adapter invocation may fail.
Init == Constructed /\ mayFault = TRUE /\ passLimit = MaxPass

\* Every adapter invocation succeeds.
InitHealthy == Constructed /\ mayFault = FALSE /\ passLimit = MaxPass

\* ------------------------------------------------------------- the mutex
\* A lock that never blocks.
NeverBlocks == TRUE

\* std::lock_guard<std::mutex> lock(cacheMutex) blocks until the mutex is free.
CanLock == cacheMutex = Free

\* A fresh pass number for the adapters a thread is about to invoke.
CanStartPass == passes < passLimit

\* The adapter results a run over `keys` may draw.
Draw(keys) == IF mayFault THEN OneFault(keys) ELSE {AllOk(keys)}

\* ------------------------------------------------- updateFastData / Slow
\* cachedDynamicInfo["storage"|"battery"|"network"] = get...Info()
updateFastData(c, p) == Collect(FastKeys, c, 1, cachedDynamicInfo, p)

\* The gate with twice the interval.
SlowDueLate(t) ==
    Seconds(t - (IF lastSlowUpdate < 0 THEN t ELSE lastSlowUpdate))
        >= 2 * SlowIntervalSec

\* static auto lastSlowUpdate = now(): initialised by the first call.
SlowLast(t) == IF lastSlowUpdate < 0 THEN t ELSE lastSlowUpdate

\* duration_cast<seconds>(now - lastSlowUpdate).count() >= 1
SlowDue(t) == Seconds(t - SlowLast(t)) >= SlowIntervalSec

\* cachedDynamicInfo["cpu"|"memory"] = get...Info()
updateSlowData(c, p) == Collect(SlowKeys, c, 1, cachedDynamicInfo, p)

\* -------------------------------------------------------------- the clock
\* ------------------------------------------------------------- systemLog
\* The log callbacks a consumer may install with SetLogCallback.
LogCallbacks == {"null", "noop"}

\* std::lock_guard<std::mutex> lock(g_logMutex);
\* if (g_logCallback) g_logCallback(level, message.c_str());
\* `held`: the calling thread holds cacheMutex.  The callback returns without
\* touching the program; logSeen remembers how it was last invoked.
systemLog(held) ==
    /\ g_logMutex = Free
    /\ g_logMutex' = g_logMutex
    /\ g_debugMode' = g_debugMode
    /\ g_logCallback' = g_logCallback
    /\ logSeen' = IF g_logCallback = "null" THEN logSeen
                  ELSE IF held THEN "held" ELSE "free"

\* A step that calls systemLog nowhere.
Quiet == UNCHANGED sinkVars

\* A SetLogCallback that also stops the update loop.
SetLogCallbackStops(cb) ==
    /\ ~terminated
    /\ g_logMutex = Free
    /\ g_logCallback # cb
    /\ g_logCallback' = cb
    /\ running' = FALSE
    /\ UNCHANGED <<wrapVars, clockVars, cacheMutex, cacheVars, joinable, bgpc,
                   wakeAt, terminated, g_errorCode, clientVars, pass, passes,
                   mayFault, hist, logSeen, g_logMutex,
                   g_debugMode>>

\* std::lock_guard<std::mutex> lock(g_logMutex); g_logCallback = callback;
SetLogCallback(cb) ==
    /\ ~terminated
    /\ g_logMutex = Free
    /\ g_logCallback # cb
    /\ g_logCallback' = cb
    /\ UNCHANGED <<wrapVars, clockVars, cacheMutex, cacheVars, threadVars,
                   g_errorCode, clientVars, pass, passes, mayFault, hist,
                   logSeen, g_logMutex, g_debugMode>>

\* g_debugMode = enabled;
SetDebugMode(enabled) ==
    /\ ~terminated
    /\ g_debugMode # enabled
    /\ g_debugMode' = enabled
    /\ UNCHANGED <<coreVars, g_logCallback, logSeen, g_logMutex>>

Tick(d) ==
    /\ ~terminated
    /\ ticks < MaxTicks
    /\ now' = now + d
    /\ ticks' = ticks + 1
    /\ UNCHANGED <<wrapVars, cacheMutex, cacheVars, threadVars, g_errorCode, clientVars,
                   pass, passes, mayFault, hist>>

\* The longest a loop iteration takes from one sleep_for to the next (ms).
Period == LoopSleepMs * (1 + MaxLate)

\* The clock of the timed specification: it advances by the loop sleep, only
\* while no call is executing and the update thread sleeps (lock waits, adapter
\* run times and wake-up latency are counted in the time the thread is seen
\* sleeping), and the thread is never seen sleeping for more than Period.
TickFine ==
    /\ ~terminated
    /\ ticks < MaxFineTicks
    /\ \A t \in Clients : pc[t] = "idle"
    /\ bgpc = "sleep"
    /\ now + LoopSleepMs <= wakeAt - LoopSleepMs + Period
    /\ now' = now + LoopSleepMs
    /\ ticks' = ticks + 1
    /\ UNCHANGED <<wrapVars, cacheMutex, cacheVars, threadVars, g_errorCode,
                   clientVars, pass, passes, mayFault, hist>>

\* ---------------------------------------------- updateDynamicDataThread
\* while (running)
BgLoopTest ==
    /\ ~terminated
    /\ bgpc = "check"
    /\ bgpc' = IF running THEN "lock" ELSE "exited"
    /\ UNCHANGED <<wrapVars, clockVars, cacheMutex, cacheVars, running, joinable, wakeAt,
                   terminated, g_errorCode, clientVars, pass, passes, mayFault,
                   hist>>

\* The loop body entered without taking the lock.
BgLockSkipped ==
    /\ ~terminated
    /\ bgpc = "lock"
    /\ CanStartPass
    /\ passes' = passes + 1
    /\ pass' = [pass EXCEPT ![BgThread] = passes + 1]
    /\ bgpc' = "fast"
    /\ UNCHANGED <<wrapVars, clockVars, cacheMutex, cacheVars, running, joinable, wakeAt,
                   terminated, g_errorCode, clientVars, mayFault, hist>>

\* std::lock_guard<std::mutex> lock(cacheMutex);
BgLock ==
    /\ ~terminated
    /\ bgpc = "lock"
    /\ CanLock
    /\ CanStartPass
    /\ cacheMutex' = BgThread
    /\ passes' = passes + 1
    /\ pass' = [pass EXCEPT ![BgThread] = passes + 1]
    /\ bgpc' = "fast"
    /\ UNCHANGED <<wrapVars, clockVars, cacheVars, running, joinable, wakeAt, terminated,
                   g_errorCode, clientVars, mayFault, hist>>

\* A sleep entered with the lock still held.
BgSleepLocked ==
    /\ cacheMutex' = cacheMutex
    /\ bgpc' = "sleep"
    /\ wakeAt' = now + LoopSleepMs
    /\ pass' = [pass EXCEPT ![BgThread] = 0]

\* The block is left (normally, or by an exception that the thread's catch
\* handlers log): the lock_guard is released; sleep_for(100 ms).
BgSleep ==
    /\ cacheMutex' = Free
    /\ bgpc' = "sleep"
    /\ wakeAt' = now + LoopSleepMs
    /\ pass' = [pass EXCEPT ![BgThread] = 0]

\* An exception that leaves the thread function: the thread is gone.
BgUncaught ==
    /\ cacheMutex' = Free
    /\ bgpc' = "exited"
    /\ wakeAt' = wakeAt
    /\ pass' = [pass EXCEPT ![BgThread] = 0]

\* catch (const std::exception& e) { ... } catch (...) { ... }: an exception
\* that leaves the block unwinds the lock_guard and is caught inside the loop;
\* the thread goes on to its sleep_for.
BgCaught == BgSleep

\* updateFastData();
BgFast ==
    /\ ~terminated
    /\ bgpc = "fast"
    /\ \E c \in Draw(FastKeys) :
        LET r == updateFastData(c, pass[BgThread]) IN
        /\ cachedDynamicInfo' = r.tier
        /\ mayFault' = (mayFault /\ Faulty(c) = {})
        /\ IF r.thrown = "none"
           THEN bgpc' = "slow" /\ UNCHANGED <<cacheMutex, wakeAt, pass>>
           ELSE BgCaught
    /\ hist' = [hist EXCEPT !.fastAt = now]
    /\ UNCHANGED <<wrapVars, clockVars, cachedStaticInfo, lastStaticUpdate,
                   lastSlowUpdate, running, joinable, terminated, g_errorCode,
                   clientVars, passes>>

\* updateSlowData(); the rest of the block only logs.
BgSlow ==
    /\ ~terminated
    /\ bgpc = "slow"
    /\ IF SlowDue(now)
       THEN \E c \in Draw(SlowKeys) :
            LET r == updateSlowData(c, pass[BgThread]) IN
            /\ cachedDynamicInfo' = r.tier
            /\ mayFault' = (mayFault /\ Faulty(c) = {})
            /\ lastSlowUpdate' = IF r.thrown = "none" THEN now ELSE SlowLast(now)
            /\ IF r.thrown = "none" THEN BgSleep ELSE BgCaught
       ELSE /\ lastSlowUpdate' = SlowLast(now)
            /\ BgSleep
            /\ UNCHANGED <<cachedDynamicInfo, mayFault>>
    /\ hist' = IF SlowDue(now) THEN [hist EXCEPT !.slowAt = now] ELSE hist
    /\ UNCHANGED <<wrapVars, clockVars, cachedStaticInfo, lastStaticUpdate, running,
                   joinable, terminated, g_errorCode, clientVars, passes>>

\* sleep_for returns no earlier than 100 ms after it was called.
BgWake ==
    /\ ~terminated
    /\ bgpc = "sleep"
    /\ now >= wakeAt
    /\ bgpc' = "check"
    /\ wakeAt' = 0
    /\ UNCHANGED <<wrapVars, clockVars, cacheMutex, cacheVars, running, joinable,
                   terminated, g_errorCode, clientVars, pass, passes, mayFault,
                   hist>>

\* The steps of the update thread, without their log calls.
CoreBackground == BgLoopTest \/ BgLock \/ BgFast \/ BgSlow \/ BgWake

\* updateSlowData ran to its end (or was not due): the block goes on to its
\* log calls; otherwise the exception left the block.
SlowDone ==
    SlowDue(now) =>
        \A k \in SlowSet : cachedDynamicInfo'[k].pass = pass[BgThread]

\* The steps of the update thread with their log calls: "thread stopped"
\* after the loop; "=== Updating Dynamic Data ===" under the lock; "Fast data
\* updated" and the statistics under the lock, or the ERROR line of the
\* catch handlers once the lock_guard is unwound.
Background ==
    \/ BgLoopTest /\ (IF running THEN Quiet ELSE systemLog(FALSE))
    \/ BgLock /\ systemLog(TRUE)
    \/ BgFast /\ systemLog(bgpc' = "slow")
    \/ BgSlow /\ systemLog(SlowDone)
    \/ BgWake /\ Quiet

\* ------------------------------------------ InitializeCache / initializeCache
\* A lifecycle call (InitializeCache, CleanupSystemInfo) is in progress.
LifecycleBusy ==
    \E t \in Clients :
        pc[t] \in {"init_lock", "init_static", "init_fast", "init_slow",
                   "init_start", "init_unlock", "cl_join"}

\* Client t moves on inside the call it is executing.
Goto(t, label) ==
    /\ pc' = [pc EXCEPT ![t] = label]
    /\ UNCHANGED <<wrapVars, ret, tnow, pass>>

\* The exported call returns `code` to client t; its locals are gone.
Finish(t, code) ==
    /\ pc' = [pc EXCEPT ![t] = "idle"]
    /\ ret' = [ret EXCEPT ![t] = code]
    /\ tnow' = [tnow EXCEPT ![t] = 0]
    /\ pass' = [pass EXCEPT ![t] = 0]

\* What the adapters run by client t did, for the history of its call.
Noted(t, c, r) ==
    [call EXCEPT ![t].faulted = @ \/ Faulty(c) # {},
                 ![t].logged = @ \/ r.logged \/ r.thrown = "std"]

\* An InitializeCache that sets the running flag again.
InitCallRestarts(t) ==
    /\ ~terminated
    /\ t = Controller
    /\ pc[t] = "idle"
    /\ ~LifecycleBusy
    /\ running' = TRUE
    /\ pc' = [pc EXCEPT ![t] = "init_lock"]
    /\ ret' = [ret EXCEPT ![t] = "none"]
    /\ call' = [call EXCEPT ![t] = [NoCall EXCEPT !.op = "init"]]
    /\ hist' = [hist EXCEPT !.initCalled = TRUE, !.stopped = FALSE]
    /\ UNCHANGED <<wrapVars, clockVars, cacheMutex, cacheVars, joinable, bgpc,
                   wakeAt, terminated, g_errorCode, tnow, info, pass, passes,
                   mayFault>>

\* InitializeCache is entered; initializeCache leaves `running` as it is.
InitCall(t) ==
    /\ ~terminated
    /\ t = Controller
    /\ pc[t] = "idle"
    /\ ~LifecycleBusy
    /\ pc' = [pc EXCEPT ![t] = "init_lock"]
    /\ ret' = [ret EXCEPT ![t] = "none"]
    /\ call' = [call EXCEPT ![t] = [NoCall EXCEPT !.op = "init"]]
    /\ hist' = [hist EXCEPT !.initCalled = TRUE, !.stopped = FALSE]
    /\ UNCHANGED <<wrapVars, clockVars, cacheMutex, cacheVars, threadVars, g_errorCode,
                   tnow, info, pass, passes, mayFault>>

\* std::lock_guard<std::mutex> lock(cacheMutex);
InitLock(t) ==
    /\ ~terminated
    /\ pc[t] = "init_lock"
    /\ CanLock
    /\ CanStartPass
    /\ cacheMutex' = t
    /\ passes' = passes + 1
    /\ pass' = [pass EXCEPT ![t] = passes + 1]
    /\ pc' = [pc EXCEPT ![t] = "init_static"]
    /\ UNCHANGED <<wrapVars, clockVars, cacheVars, threadVars, g_errorCode, tnow, info,
                   ret, call, mayFault, hist>>

\* An exception leaves initializeCache: the lock_guard is unwound; a
\* std::exception is logged, rethrown and turned into error code 7 by
\* InitializeCache; any other exception leaves the exported function.
InitAbort(t, thrown) ==
    /\ cacheMutex' = Free
    /\ g_errorCode' = IF thrown = "std" THEN 7 ELSE g_errorCode
    /\ g_lastError' = IF thrown = "std" THEN "init" ELSE g_lastError
    /\ Finish(t, IF thrown = "std" THEN "error" ELSE "exception")

\* cachedStaticInfo["deviceId"] = getDeviceId(); ... lastStaticUpdate = now();
InitStatic(t) ==
    /\ ~terminated
    /\ pc[t] = "init_static"
    /\ \E c \in Draw(StaticKeys) :
        LET r == Collect(StaticKeys, c, 1, cachedStaticInfo, pass[t]) IN
        /\ cachedStaticInfo' = r.tier
        /\ mayFault' = (mayFault /\ Faulty(c) = {})
        /\ call' = Noted(t, c, r)
        /\ IF r.thrown = "none"
           THEN /\ lastStaticUpdate' = now
                /\ Goto(t, "init_fast")
                /\ UNCHANGED <<cacheMutex, g_errorCode>>
           ELSE /\ InitAbort(t, r.thrown)
                /\ UNCHANGED lastStaticUpdate
    /\ hist' = [hist EXCEPT !.staticGen = pass[t]]
    /\ UNCHANGED <<pushVars, clockVars, cachedDynamicInfo, lastSlowUpdate, threadVars,
                   info, passes>>

\* updateFastData();
InitFast(t) ==
    /\ ~terminated
    /\ pc[t] = "init_fast"
    /\ \E c \in Draw(FastKeys) :
        LET r == updateFastData(c, pass[t]) IN
        /\ cachedDynamicInfo' = r.tier
        /\ mayFault' = (mayFault /\ Faulty(c) = {})
        /\ call' = Noted(t, c, r)
        /\ IF r.thrown = "none"
           THEN /\ Goto(t, "init_slow")
                /\ UNCHANGED <<cacheMutex, g_errorCode>>
           ELSE InitAbort(t, r.thrown)
    /\ UNCHANGED <<pushVars, clockVars, cachedStaticInfo, lastStaticUpdate,
                   lastSlowUpdate, threadVars, info, passes, hist>>

\* updateSlowData(); lastDynamicUpdate = now();  (lastDynamicUpdate is
\* written here and never read: it is not part of the state.)
InitSlow(t) ==
    /\ ~terminated
    /\ pc[t] = "init_slow"
    /\ IF SlowDue(now)
       THEN \E c \in Draw(SlowKeys) :
            LET r == updateSlowData(c, pass[t]) IN
            /\ cachedDynamicInfo' = r.tier
            /\ mayFault' = (mayFault /\ Faulty(c) = {})
            /\ call' = Noted(t, c, r)
            /\ IF r.thrown = "none"
               THEN /\ lastSlowUpdate' = now
                    /\ Goto(t, "init_start")
                    /\ UNCHANGED <<cacheMutex, g_errorCode>>
               ELSE /\ lastSlowUpdate' = SlowLast(now)
                    /\ InitAbort(t, r.thrown)
       ELSE /\ lastSlowUpdate' = SlowLast(now)
            /\ Goto(t, "init_start")
            /\ UNCHANGED <<cachedDynamicInfo, mayFault, call, cacheMutex,
                           g_errorCode>>
    /\ hist' = IF SlowDue(now) THEN [hist EXCEPT !.slowAt = now] ELSE hist
    /\ UNCHANGED <<pushVars, clockVars, cachedStaticInfo, lastStaticUpdate, threadVars,
                   info, passes>>

\* updateThread = std::thread(updateDynamicDataThread);
\* Assigning to a joinable std::thread calls std::terminate.
InitStart(t) ==
    /\ ~terminated
    /\ pc[t] = "init_start"
    /\ IF joinable
       THEN /\ terminated' = TRUE
            /\ UNCHANGED <<joinable, bgpc, pc>>
       ELSE /\ joinable' = TRUE
            /\ bgpc' = "check"
            /\ pc' = [pc EXCEPT ![t] = "init_unlock"]
            /\ UNCHANGED terminated
    /\ UNCHANGED <<wrapVars, clockVars, cacheMutex, cacheVars, running, wakeAt,
                   g_errorCode, tnow, info, ret, call, pass, passes, mayFault,
                   hist>>

\* End of the try block: the lock_guard is released; InitializeCache returns.
InitUnlock(t) ==
    /\ ~terminated
    /\ pc[t] = "init_unlock"
    /\ cacheMutex' = Free
    /\ Finish(t, "ok")
    /\ hist' = [hist EXCEPT !.initReturned = TRUE]
    /\ UNCHANGED <<wrapVars, clockVars, cacheVars, threadVars, g_errorCode, info, call,
                   passes, mayFault>>

\* The steps of InitializeCache, without their log calls.
CoreInitialize(t) ==
    \/ InitCall(t) \/ InitLock(t) \/ InitStatic(t) \/ InitFast(t)
    \/ InitSlow(t) \/ InitStart(t) \/ InitUnlock(t)

\* catch (const std::exception& e) { systemLog("ERROR", ...); throw; }
\* The handler runs once the lock_guard is unwound; an exception of another
\* type meets no handler and is logged nowhere.
AbortLogs(t, code) == IF ret'[t] = code THEN systemLog(FALSE) ELSE Quiet

\* The steps of InitializeCache with their log calls, all made under the lock
\* but the ERROR line of the catch handler.
Initialize(t) ==
    \/ InitCall(t) /\ Quiet
    \/ InitLock(t) /\ systemLog(TRUE)
    \/ InitStatic(t) /\ (IF cacheMutex' = t THEN systemLog(TRUE)
                                            ELSE AbortLogs(t, "error"))
    \/ InitFast(t) /\ (IF cacheMutex' = t THEN Quiet ELSE AbortLogs(t, "error"))
    \/ InitSlow(t) /\ (IF cacheMutex' = t THEN systemLog(TRUE)
                                          ELSE AbortLogs(t, "error"))
    \/ InitStart(t) /\ (IF terminated' THEN Quiet ELSE systemLog(TRUE))
    \/ InitUnlock(t) /\ Quiet

\* ------------------------------------------- CleanupSystemInfo / cleanup
\* The update thread is inside an iteration (it holds the lock).
InIteration == bgpc \in {"fast", "slow"}

\* running = false;
CleanupCall(t) ==
    /\ ~terminated
    /\ t = Controller
    /\ pc[t] = "idle"
    /\ ~LifecycleBusy
    /\ running' = FALSE
    /\ pc' = [pc EXCEPT ![t] = "cl_join"]
    /\ ret' = [ret EXCEPT ![t] = "none"]
    /\ call' = [call EXCEPT ![t] = [NoCall EXCEPT !.op = "cleanup",
                                                  !.midIteration = InIteration,
                                                  !.afterShutdown = hist.stopped]]
    /\ UNCHANGED <<wrapVars, clockVars, cacheMutex, cacheVars, joinable, bgpc, wakeAt,
                   terminated, g_errorCode, tnow, info, pass, passes, mayFault,
                   hist>>

\* A join that does not wait.
JoinSkipped == TRUE

\* std::thread::join returns once the thread function has returned.
Joined == bgpc = "exited"

\* if (updateThread.joinable()) updateThread.join();
CleanupJoin(t) ==
    /\ ~terminated
    /\ pc[t] = "cl_join"
    /\ joinable => Joined
    /\ joinable' = FALSE
    /\ Finish(t, "ok")
    /\ hist' = [hist EXCEPT !.shutdownReturned = TRUE, !.stopped = TRUE]
    /\ UNCHANGED <<wrapVars, clockVars, cacheMutex, cacheVars, running, bgpc, wakeAt,
                   terminated, g_errorCode, info, call, passes, mayFault>>

\* The steps of CleanupSystemInfo, without their log calls.
CoreCleanup(t) == CleanupCall(t) \/ CleanupJoin(t)

\* cleanup() logs before and after the join; it never takes cacheMutex.
Cleanup(t) ==
    \/ CleanupCall(t) /\ systemLog(FALSE)
    \/ CleanupJoin(t) /\ systemLog(FALSE)

\* ------------------------------------------ GetSystemInfoJson / getSystemInfo
\* The expiry test with > in place of >=.
StaticExpiredLate(t) ==
    \/ Empty(cachedStaticInfo)
    \/ Seconds(t - lastStaticUpdate) > STATIC_CACHE_DURATION_SEC

\* An expiry test that always succeeds.
StaticExpiredAlways(t) == TRUE

\* cachedStaticInfo.empty() ||
\* duration_cast<seconds>(now - lastStaticUpdate).count() >= STATIC_CACHE_DURATION_SEC
StaticExpired(t) ==
    \/ Empty(cachedStaticInfo)
    \/ Seconds(t - lastStaticUpdate) >= STATIC_CACHE_DURATION_SEC

\* The merge with the static tier applied first.
MergedStaticFirst(dynamic, static) ==
    merge_patch(merge_patch(NullJson, static), dynamic)

\* info.merge_patch(cachedDynamicInfo); info.merge_patch(cachedStaticInfo);
Merged(dynamic, static) ==
    merge_patch(merge_patch(NullJson, dynamic), static)

Max(a, b) == IF a >= b THEN a ELSE b

GsiCall(t) ==
    /\ ~terminated
    /\ pc[t] = "idle"
    /\ pc' = [pc EXCEPT ![t] = "gsi_lock"]
    /\ ret' = [ret EXCEPT ![t] = "none"]
    /\ call' = [call EXCEPT ![t] = [NoCall EXCEPT !.op = "gsi",
                                                  !.beforeInit = ~hist.initCalled,
                                                  !.afterInit = hist.initReturned,
                                                  !.afterShutdown = hist.stopped,
                                                  !.floor = hist.hwm]]
    /\ UNCHANGED <<wrapVars, clockVars, cacheMutex, cacheVars, threadVars, g_errorCode,
                   tnow, info, pass, passes, mayFault, hist>>

\* std::lock_guard<std::mutex> lock(cacheMutex); auto now = steady_clock::now();
\* if (cachedStaticInfo.empty() || ... >= STATIC_CACHE_DURATION_SEC)
GsiLock(t) ==
    /\ ~terminated
    /\ pc[t] = "gsi_lock"
    /\ CanLock
    /\ cacheMutex' = t
    /\ tnow' = [tnow EXCEPT ![t] = now]
    /\ call' = [call EXCEPT ![t].expired =
                    \/ \A k \in Keys : ~Contains(cachedStaticInfo, k)
                    \/ now - lastStaticUpdate >= 1000 * STATIC_CACHE_DURATION_SEC]
    /\ IF StaticExpired(now)
       THEN /\ CanStartPass
            /\ passes' = passes + 1
            /\ pass' = [pass EXCEPT ![t] = passes + 1]
            /\ pc' = [pc EXCEPT ![t] = "gsi_refresh"]
       ELSE /\ pc' = [pc EXCEPT ![t] = "gsi_merge"]
            /\ UNCHANGED <<pass, passes>>
    /\ hist' = [hist EXCEPT !.ttlRefresh =
                    @ \/ (StaticExpired(now) /\ ~Empty(cachedStaticInfo))]
    /\ UNCHANGED <<wrapVars, clockVars, cacheVars, threadVars, g_errorCode, info, ret,
                   mayFault>>

\* cachedStaticInfo["deviceId"] = getDeviceId(); ... lastStaticUpdate = now;
\* An exception unwinds the lock_guard; a std::exception is logged and
\* rethrown by getSystemInfo; GetSystemInfoJson turns a std::exception into
\* error code 2 and any other exception into error code 3, and returns nullptr.
GsiRefresh(t) ==
    /\ ~terminated
    /\ pc[t] = "gsi_refresh"
    /\ \E c \in Draw(StaticKeys) :
        LET r == Collect(StaticKeys, c, 1, cachedStaticInfo, pass[t]) IN
        /\ cachedStaticInfo' = r.tier
        /\ mayFault' = (mayFault /\ Faulty(c) = {})
        /\ call' = [Noted(t, c, r) EXCEPT ![t].refreshed = TRUE]
        /\ IF r.thrown = "none"
           THEN /\ lastStaticUpdate' = tnow[t]
                /\ Goto(t, "gsi_merge")
                /\ UNCHANGED <<cacheMutex, g_errorCode>>
           ELSE /\ cacheMutex' = Free
                /\ g_errorCode' = IF r.thrown = "std" THEN 2 ELSE 3
                /\ g_lastError' = IF r.thrown = "std" THEN "what" ELSE "unknown"
                /\ Finish(t, "nullptr")
                /\ UNCHANGED lastStaticUpdate
    /\ hist' = [hist EXCEPT !.staticGen = pass[t]]
    /\ UNCHANGED <<pushVars, clockVars, cachedDynamicInfo, lastSlowUpdate, threadVars,
                   info, passes>>

\* info.merge_patch(cachedDynamicInfo); info.merge_patch(cachedStaticInfo);
GsiMerge(t) ==
    /\ ~terminated
    /\ pc[t] = "gsi_merge"
    /\ info' = [info EXCEPT ![t] = Merged(cachedDynamicInfo, cachedStaticInfo)]
    /\ call' = [call EXCEPT ![t].gen = hist.staticGen]
    /\ pc' = [pc EXCEPT ![t] = "gsi_return"]
    /\ UNCHANGED <<wrapVars, clockVars, cacheMutex, cacheVars, threadVars, g_errorCode,
                   tnow, ret, pass, passes, mayFault, hist>>

\* How allocateString(info.dump()) ends: the string is handed back; new char[]
\* throws inside allocateString, whose catch (...) sets error code 1 and
\* returns nullptr; or dump() throws a std::exception (json::type_error for a
\* string that is no UTF-8, std::bad_alloc), which GetSystemInfoJson turns
\* into error code 2.
Handovers == IF mayFault THEN {"json", "alloc", "dump"} ELSE {"json"}

\* A failing handover that leaves the error code as it is.
ErrorCodeKept(o) == g_errorCode

\* g_errorCode = 1 in allocateString; g_errorCode = 2 in the handler of
\* GetSystemInfoJson.
HandoverCode(o) == IF o = "alloc" THEN 1 ELSE 2

\* return info; the lock_guard is released and GetSystemInfoJson returns
\* allocateString(info.dump()); the local `info` is gone.
GsiReturn(t) ==
    /\ ~terminated
    /\ pc[t] = "gsi_return"
    /\ cacheMutex' = Free
    /\ info' = [info EXCEPT ![t] = NullJson]
    /\ call' = [call EXCEPT ![t].floor = NoCall.floor]
    /\ \E o \in Handovers :
        IF o = "json"
        THEN /\ hist' = [hist EXCEPT
                    !.hwm = [k \in DynamicSet |-> Max(@[k], info[t][k].pass)],
                    !.lastStatic = [k \in StaticSet |-> info[t][k]],
                    !.lastGen = call[t].gen]
             /\ Finish(t, "json")
             /\ UNCHANGED <<wrapVars, g_errorCode, mayFault>>
        ELSE /\ g_errorCode' = HandoverCode(o)
             /\ g_lastError' = IF o = "alloc" THEN "alloc" ELSE "what"
             /\ mayFault' = FALSE
             /\ Finish(t, "nullptr")
             /\ UNCHANGED <<pushVars, hist>>
    /\ UNCHANGED <<clockVars, cacheVars, threadVars, passes>>

\* The steps of GetSystemInfoJson, without their log calls.
CoreGetSystemInfoJson(t) ==
    \/ GsiCall(t) \/ GsiLock(t) \/ GsiRefresh(t) \/ GsiMerge(t)
    \/ GsiReturn(t)

\* The steps of GetSystemInfoJson with the log calls of getSystemInfo: "===
\* Getting System Info ===" and "Updating static data..." under the lock,
\* "Merging data..." and the verification lines under the lock, the ERROR line
\* of the catch handler once the lock_guard is unwound.
GetSystemInfoJson(t) ==
    \/ GsiCall(t) /\ Quiet
    \/ GsiLock(t) /\ systemLog(TRUE)
    \/ GsiRefresh(t) /\ (IF cacheMutex' = t THEN Quiet
                          ELSE IF g_errorCode' = 2 THEN systemLog(FALSE) ELSE Quiet)
    \/ GsiMerge(t) /\ systemLog(TRUE)
    \/ GsiReturn(t) /\ Quiet

\* --------------------------- RegisterChangeCallback / UnregisterChangeCallback
\* The push callbacks a consumer may pass.
Callbacks == {"null", "cb"}

\* std::lock_guard<std::mutex> lock(g_callbackMutex); g_callback = callback;
\* if (callback) { try { json info = getSystemInfo(); ...
RegCall(t, cb) ==
    /\ ~terminated
    /\ pc[t] = "idle"
    /\ g_callbackMutex = Free
    /\ g_callback' = cb
    /\ call' = [call EXCEPT ![t] = [NoCall EXCEPT !.op = "register",
                                                  !.callback = cb]]
    /\ IF cb = "null"
       THEN /\ Finish(t, "ok")
            /\ UNCHANGED g_callbackMutex
       ELSE /\ g_callbackMutex' = t
            /\ pc' = [pc EXCEPT ![t] = "reg_lock"]
            /\ ret' = [ret EXCEPT ![t] = "none"]
            /\ UNCHANGED <<tnow, pass>>
    /\ UNCHANGED <<envVars, g_lastError, clockVars, cacheMutex, cacheVars,
                   threadVars, g_errorCode, info, passes, mayFault, hist>>

\* getSystemInfo: std::lock_guard<std::mutex> lock(cacheMutex); now; expiry test
RegLock(t) ==
    /\ ~terminated
    /\ pc[t] = "reg_lock"
    /\ CanLock
    /\ cacheMutex' = t
    /\ tnow' = [tnow EXCEPT ![t] = now]
    /\ IF StaticExpired(now)
       THEN /\ CanStartPass
            /\ passes' = passes + 1
            /\ pass' = [pass EXCEPT ![t] = passes + 1]
            /\ pc' = [pc EXCEPT ![t] = "reg_refresh"]
       ELSE /\ pc' = [pc EXCEPT ![t] = "reg_merge"]
            /\ UNCHANGED <<pass, passes>>
    /\ UNCHANGED <<wrapVars, clockVars, cacheVars, threadVars, g_errorCode, info,
                   ret, call, mayFault, hist>>

\* getSystemInfo: the static refresh.  An exception unwinds the lock_guard of
\* getSystemInfo; catch (...) { } of RegisterChangeCallback swallows it, the
\* callback is not invoked and the lock_guard on g_callbackMutex is released.
RegRefresh(t) ==
    /\ ~terminated
    /\ pc[t] = "reg_refresh"
    /\ \E c \in Draw(StaticKeys) :
        LET r == Collect(StaticKeys, c, 1, cachedStaticInfo, pass[t]) IN
        /\ cachedStaticInfo' = r.tier
        /\ mayFault' = (mayFault /\ Faulty(c) = {})
        /\ call' = [Noted(t, c, r) EXCEPT ![t].refreshed = TRUE]
        /\ IF r.thrown = "none"
           THEN /\ lastStaticUpdate' = tnow[t]
                /\ pc' = [pc EXCEPT ![t] = "reg_merge"]
                /\ UNCHANGED <<cacheMutex, g_callbackMutex, ret, tnow, pass>>
           ELSE /\ cacheMutex' = Free
                /\ g_callbackMutex' = Free
                /\ Finish(t, "ok")
                /\ UNCHANGED lastStaticUpdate
    /\ hist' = [hist EXCEPT !.staticGen = pass[t]]
    /\ UNCHANGED <<envVars, g_callback, g_lastError, clockVars,
                   cachedDynamicInfo, lastSlowUpdate, threadVars, g_errorCode,
                   info, passes>>

\* getSystemInfo: info.merge_patch(...); return info; (the lock_guard on
\* cacheMutex is released); std::string jsonStr = info.dump();
RegMerge(t) ==
    /\ ~terminated
    /\ pc[t] = "reg_merge"
    /\ info' = [info EXCEPT ![t] = Merged(cachedDynamicInfo, cachedStaticInfo)]
    /\ cacheMutex' = Free
    /\ pc' = [pc EXCEPT ![t] = "reg_invoke"]
    /\ UNCHANGED <<wrapVars, clockVars, cacheVars, threadVars, g_errorCode, tnow,
                   ret, call, pass, passes, mayFault, hist>>

\* callback(jsonStr.c_str()); the lock_guard on g_callbackMutex is released.
RegInvoke(t) ==
    /\ ~terminated
    /\ pc[t] = "reg_invoke"
    /\ call' = [call EXCEPT ![t].invoked = @ + 1]
    /\ info' = [info EXCEPT ![t] = NullJson]
    /\ g_callbackMutex' = Free
    /\ Finish(t, "ok")
    /\ UNCHANGED <<envVars, g_callback, g_lastError, clockVars, cacheMutex,
                   cacheVars, threadVars, g_errorCode, passes, mayFault, hist>>

\* The steps of RegisterChangeCallback with the log calls of getSystemInfo.
RegisterChangeCallback(t) ==
    \/ \E cb \in Callbacks : RegCall(t, cb) /\ Quiet
    \/ RegLock(t) /\ systemLog(TRUE)
    \/ RegRefresh(t) /\ (IF cacheMutex' = t THEN Quiet
                          ELSE IF call'[t].logged THEN systemLog(FALSE) ELSE Quiet)
    \/ RegMerge(t) /\ systemLog(TRUE)
    \/ RegInvoke(t) /\ Quiet

\* std::lock_guard<std::mutex> lock(g_callbackMutex); g_callback = nullptr;
UnregisterChangeCallback(t) ==
    /\ ~terminated
    /\ pc[t] = "idle"
    /\ g_callbackMutex = Free
    /\ g_callback' = "null"
    /\ call' = [call EXCEPT ![t] = [NoCall EXCEPT !.op = "unregister"]]
    /\ Finish(t, "ok")
    /\ UNCHANGED <<envVars, g_callbackMutex, g_lastError, clockVars, cacheMutex,
                   cacheVars, threadVars, g_errorCode, info, passes, mayFault,
                   hist>>

\* ------------------------------------------------ GetSystemInfoErrorMessage
\* return g_lastError.c_str();  The read of the std::string begins: no lock is
\* taken.  ret[t] holds the message the read started from.
GemCall(t) ==
    /\ ~terminated
    /\ pc[t] = "idle"
    /\ pc' = [pc EXCEPT ![t] = "gem_read"]
    /\ ret' = [ret EXCEPT ![t] = g_lastError]
    /\ call' = [call EXCEPT ![t] = [NoCall EXCEPT !.op = "errmsg"]]
    /\ UNCHANGED <<wrapVars, clockVars, cacheMutex, cacheVars, threadVars,
                   g_errorCode, tnow, info, pass, passes, mayFault, hist>>

\* What a read of g_lastError that began at message `seen` hands back: the
\* message, unless it was assigned meanwhile; then the read raced with the
\* write and any outcome is possible.
ReadOutcomes(seen) ==
    IF g_lastError = seen THEN {seen} ELSE {seen, g_lastError, "garbage"}

\* The read ends and the pointer is handed back.
GemReturn(t) ==
    /\ ~terminated
    /\ pc[t] = "gem_read"
    /\ \E m \in ReadOutcomes(ret[t]) : Finish(t, m)
    /\ UNCHANGED <<wrapVars, clockVars, cacheMutex, cacheVars, threadVars,
                   g_errorCode, info, call, passes, mayFault, hist>>

GetSystemInfoErrorMessage(t) ==
    \/ GemCall(t) /\ Quiet
    \/ GemReturn(t) /\ Quiet

\* ---------------------------------------------------------- specification
\* The calls client t may make.
Step(t) == Initialize(t) \/ Cleanup(t) \/ GetSystemInfoJson(t)

\* The calls client t may make, without the log calls.
CoreStep(t) ==
    CoreInitialize(t) \/ CoreCleanup(t) \/ CoreGetSystemInfoJson(t)

\* The program without systemLog: one client, the update thread, the clock.
NextCore ==
    \/ \E d \in TickSteps : Tick(d)
    \/ CoreBackground
    \/ CoreStep(Controller)

\* One client; any one adapter invocation may fail.
Next ==
    \/ \E d \in TickSteps : Tick(d) /\ Quiet
    \/ Background
    \/ Step(Controller)

Spec == Init /\ [][Next]_vars

\* Several clients; the adapters succeed.
NextShared ==
    \/ \E d \in TickSteps : Tick(d) /\ Quiet
    \/ Background
    \/ \E t \in Clients : Step(t)

SpecShared == InitHealthy /\ [][NextShared]_vars

\* The timed specification: the lifecycle calls of one client, the update
\* thread and the fine clock; the adapters succeed.
InitTimed ==
    Constructed /\ mayFault = FALSE /\ passLimit = MaxFineTicks + MaxPass

NextTimed ==
    \/ TickFine /\ Quiet
    \/ Background
    \/ Initialize(Controller)
    \/ Cleanup(Controller)

SpecTimed == InitTimed /\ [][NextTimed]_vars

\* The slow-cadence gate: initialize, the update thread and the fine clock;
\* any one adapter invocation may fail.
InitGate ==
    Constructed /\ mayFault = TRUE /\ passLimit = MaxFineTicks + MaxPass

NextGate ==
    \/ TickFine /\ Quiet
    \/ Background
    \/ Initialize(Controller)

SpecGate == InitGate /\ [][NextGate]_vars

\* The update loop: the lifecycle calls of one client, the update thread and
\* the clock (no call of this specification reads the static TTL: the clock
\* advances by the slow interval); the consumer may have installed a log
\* callback beforehand; any one adapter invocation may fail.
InitLoop ==
    /\ StaticCollector
    /\ g_logCallback \in LogCallbacks
    /\ logSeen = "none"
    /\ g_logMutex = Free
    /\ g_debugMode = FALSE
    /\ arg = None
    /\ result = None
    /\ mayFault = TRUE
    /\ passLimit = MaxPass

NextLoop ==
    \/ Tick(1000 * SlowIntervalSec) /\ Quiet
    \/ Background
    \/ Initialize(Controller)
    \/ Cleanup(Controller)

\* A client inside a lifecycle call goes on.
LifecycleProgress ==
    pc[Controller] # "idle" /\ (Initialize(Controller) \/ Cleanup(Controller))

\* Time passes, the update thread is scheduled, and a call that has begun is
\* carried on.
FairLoop ==
    /\ WF_vars(Tick(1000 * SlowIntervalSec) /\ Quiet)
    /\ WF_vars(Background)
    /\ WF_vars(LifecycleProgress)

SpecLoop == InitLoop /\ [][NextLoop]_vars /\ FairLoop

\* The callbacks: one client that initializes, registers and unregisters a
\* push callback, a consumer that installs and removes a log callback, the
\* update thread; any one adapter invocation may fail.
NextCallbacks ==
    \/ \E d \in TickSteps : Tick(d) /\ Quiet
    \/ Background
    \/ Initialize(Controller)
    \/ RegisterChangeCallback(Controller)
    \/ UnregisterChangeCallback(Controller) /\ Quiet
    \/ \E cb \in LogCallbacks : SetLogCallback(cb)

SpecCallbacks == Init /\ [][NextCallbacks]_vars

\* The log sink: the calls of one client and the update thread, while a
\* consumer installs and removes a log callback; the adapters succeed.
NextSink ==
    \/ \E d \in TickSteps : Tick(d) /\ Quiet
    \/ Background
    \/ Step(Controller)
    \/ \E cb \in LogCallbacks : SetLogCallback(cb)

SpecSink == InitHealthy /\ [][NextSink]_vars

\* The error message: one client whose calls may fail while another reads
\* the last-error message.
NextErrors ==
    \/ \E d \in TickSteps : Tick(d) /\ Quiet
    \/ GetSystemInfoJson(Controller)
    \/ \E t \in Clients \ {Controller} : GetSystemInfoErrorMessage(t)

SpecErrors == Init /\ [][NextErrors]_vars

\* Every caller of the adapters: initialize, the update thread, getSnapshot
\* calls from several threads and the callback registrations of a second
\* thread; the adapters succeed.
NextAdapters ==
    \/ \E d \in TickSteps : Tick(d) /\ Quiet
    \/ Background
    \/ Initialize(Controller)
    \/ \E t \in Clients : GetSystemInfoJson(t)
    \/ \E t \in Clients \ {Controller} : RegisterChangeCallback(t)

SpecAdapters == InitHealthy /\ [][NextAdapters]_vars

\* The clock of the lock and debug specifications advances by the slow interval.
TickLocks == Tick(1000 * SlowIntervalSec) /\ Quiet

\* Debug mode: the lifecycle calls of one client and the update thread, while
\* a consumer installs and removes a log callback and switches debug mode;
\* the adapters succeed.
NextDebug ==
    \/ TickLocks
    \/ Background
    \/ Initialize(Controller)
    \/ Cleanup(Controller)
    \/ \E cb \in LogCallbacks : SetLogCallback(cb)
    \/ \E enabled \in BOOLEAN : SetDebugMode(enabled)

SpecDebug == InitHealthy /\ [][NextDebug]_vars

\* ----------------------------------------------------------- the lock order
\* SetLogCallback in two steps: std::lock_guard<std::mutex> lock(g_logMutex);
SetLogCallbackLock(t, cb) ==
    /\ ~terminated
    /\ pc[t] = "idle"
    /\ g_logMutex = Free
    /\ g_logMutex' = t
    /\ pc' = [pc EXCEPT ![t] = "slc_store"]
    /\ ret' = [ret EXCEPT ![t] = "none"]
    /\ call' = [call EXCEPT ![t] = [NoCall EXCEPT !.op = "setlog",
                                                  !.callback = cb]]
    /\ UNCHANGED <<wrapVars, clockVars, cacheMutex, cacheVars, threadVars,
                   g_errorCode, tnow, info, pass, passes, mayFault, hist,
                   g_logCallback, logSeen, g_debugMode>>

\* A SetLogCallback that takes cacheMutex inside its critical section.
SetLogCallbackStoreLocked(t) ==
    /\ ~terminated
    /\ pc[t] = "slc_store"
    /\ CanLock
    /\ g_logCallback' = call[t].callback
    /\ g_logMutex' = Free
    /\ Finish(t, "ok")
    /\ UNCHANGED <<wrapVars, clockVars, cacheMutex, cacheVars, threadVars,
                   g_errorCode, info, call, passes, mayFault, hist, logSeen,
                   g_debugMode>>

\* g_logCallback = callback; the lock_guard on g_logMutex is released.
SetLogCallbackStore(t) ==
    /\ ~terminated
    /\ pc[t] = "slc_store"
    /\ g_logCallback' = call[t].callback
    /\ g_logMutex' = Free
    /\ Finish(t, "ok")
    /\ UNCHANGED <<wrapVars, clockVars, cacheMutex, cacheVars, threadVars,
                   g_errorCode, info, call, passes, mayFault, hist, logSeen,
                   g_debugMode>>

\* The steps of SetLogCallback made by client t.
SetLogCallbackBy(t) ==
    \/ \E cb \in LogCallbacks : SetLogCallbackLock(t, cb)
    \/ SetLogCallbackStore(t)

\* Every exported call that takes a lock: the controller makes the lifecycle
\* calls, removes the push callback and installs log callbacks; the other
\* clients read snapshots and register push callbacks.
LockStep(t) ==
    IF t = Controller
    THEN \/ Initialize(t)
         \/ Cleanup(t)
         \/ UnregisterChangeCallback(t) /\ Quiet
         \/ SetLogCallbackBy(t)
    ELSE \/ GetSystemInfoJson(t)
         \/ RegisterChangeCallback(t)

\* The lock order: two clients making every call that takes a lock, the
\* update thread and the clock; the adapters succeed.
InitLocks == InitHealthy

NextLocks ==
    \/ TickLocks
    \/ Background
    \/ \E t \in Clients : LockStep(t)

\* Client t is inside a call and goes on.
Progress(t) == pc[t] # "idle" /\ LockStep(t)

\* Time passes; a thread that can repeatedly take its next step, a lock
\* acquisition included, takes it.
FairLocks ==
    /\ WF_vars(TickLocks)
    /\ SF_vars(Background)
    /\ \A t \in Clients : SF_vars(Progress(t))

SpecLocks == InitLocks /\ [][NextLocks]_vars /\ FairLocks

\* ------------------------------------------------------------- getDeviceId
\* The digits std::hex writes.
HexDigits == <<"0", "1", "2", "3", "4", "5", "6", "7",
               "8", "9", "a", "b", "c", "d", "e", "f">>

\* n zero nibbles.
Zeros(n) == [i \in 1..n |-> 0]

\* A shift that does not shift.
Unshifted(h, n) == h

\* A std::size_t of 64 bits is a sequence of 16 nibbles, the most significant
\* first.  hash >> (4 * n)
ShiftRight(h, n) == Zeros(n) \o SubSeq(h, 1, Len(h) - n)

\* hash & mask, the mask being the n low nibbles set (0xFFFF: n = 4).
MaskLow(h, n) == Zeros(Len(h) - n) \o SubSeq(h, Len(h) - n + 1, Len(h))

\* The digits of a number, without leading zeros ("0" for zero).
RECURSIVE Significant(_)
Significant(h) ==
    IF Len(h) > 1 /\ Head(h) = 0 THEN Significant(Tail(h)) ELSE h

\* operator<< of an unsigned integer under std::hex.
HexString(h) == [i \in 1..Len(Significant(h)) |-> HexDigits[Significant(h)[i] + 1]]

\* A field written without filling.
Unfilled(w, str) == str

\* std::setfill('0') << std::setw(w): a field shorter than w is filled on the
\* left; a longer one is written whole.
Filled(w, str) ==
    IF Len(str) >= w THEN str ELSE [i \in 1..(w - Len(str)) |-> "0"] \o str

\* ss << std::hex << std::setfill('0') << std::setw(8) << (hash & 0xFFFFFFFF)
\*    << "-" << std::setw(4) << ((hash >> 16) & 0xFFFF) << "-" ...
FormatDeviceId(hash) ==
    Filled(8, HexString(MaskLow(hash, 8))) \o <<"-">>
    \o Filled(4, HexString(MaskLow(ShiftRight(hash, 4), 4))) \o <<"-">>
    \o Filled(4, HexString(MaskLow(ShiftRight(hash, 8), 4))) \o <<"-">>
    \o Filled(4, HexString(MaskLow(ShiftRight(hash, 12), 4))) \o <<"-">>
    \o Filled(12, HexString(MaskLow(hash, 12)))

\* The 16-bit quarters the hashes explored are made of.
Quarters == {<<0, 0, 0, 0>>, <<0, 0, 0, 1>>, <<0, 10, 0, 0>>,
             <<1, 0, 0, 11>>, <<15, 15, 15, 15>>}

\* The values of std::hash<std::string>{}(baseInfo) explored.
Hashes == {a \o b \o c \o d : a \in Quarters, b \in Quarters,
                               c \in Quarters, d \in Quarters}

\* The variables of the collector, which the correlation functions leave alone.
programVars == <<now, ticks, cacheMutex, cacheVars, threadVars, g_errorCode,
                 clientVars, pass, passes, mayFault, passLimit, hist,
                 g_callbackMutex, g_callback, g_lastError, sinkVars>>

\* The collector stays as constructed while a correlation function runs.
Idle == StaticInit /\ mayFault = FALSE /\ passLimit = MaxPass

\* std::size_t hash = std::hash<std::string>{}(baseInfo);
InitDeviceId == Idle /\ arg \in Hashes /\ result = None

\* getDeviceId formats the hash and returns ss.str().
GetDeviceId ==
    /\ result = None
    /\ result' = FormatDeviceId(arg)
    /\ UNCHANGED <<arg, programVars>>

NextDeviceId == GetDeviceId

SpecDeviceId == InitDeviceId /\ [][NextDeviceId]_vars

\* -------------------------------------------------------------- getGPUInfo
\* The strings WMI and DXGI report, as sequences of characters.
Names == {<<>>, <<"a">>, <<"A">>, <<"b">>, <<"a", "b">>, <<"A", "b">>,
          <<"b", "a">>}

\* ::tolower
tolower(c) == IF c = "A" THEN "a" ELSE c

\* std::transform(s.begin(), s.end(), s.begin(), ::tolower)
Lowered(str) == [i \in DOMAIN str |-> tolower(str[i])]

\* hay.find(needle) != std::wstring::npos
Found(hay, needle) ==
    \E i \in 0..(Len(hay) - Len(needle)) :
        SubSeq(hay, i + 1, i + Len(needle)) = needle

\* DedicatedVideoMemory of the adapter at each position of the DXGI
\* enumeration, in MiB.
Memories == <<512, 8192>>

\* The string "N/A".
NA == <<"N", "/", "A">>

\* The digits of a decimal number.
DecDigits == <<"0", "1", "2", "3", "4", "5", "6", "7", "8", "9">>

\* operator<< of a non-negative integer.
RECURSIVE Decimal(_)
Decimal(n) ==
    IF n < 10 THEN <<DecDigits[n + 1]>>
    ELSE Decimal(n \div 10) \o <<DecDigits[(n % 10) + 1]>>

\* ss << std::fixed << std::setprecision(2) << bytes / (1024.0 * 1024.0 *
\* 1024.0): a memory of `mib` MiB in GB, rounded to two decimals.
VramString(mib) ==
    LET hundredths == (mib * 100 + 512) \div 1024 IN
    Decimal(hundredths \div 100) \o <<".">>
        \o <<DecDigits[((hundredths \div 10) % 10) + 1]>>
        \o <<DecDigits[(hundredths % 10) + 1]>>

\* A Win32_VideoController (its Name may be NULL) and the adapters that
\* EnumAdapters yields (GetDesc may fail).
Gpus ==
    {[named |-> TRUE, name |-> n] : n \in Names}
        \cup {[named |-> FALSE, name |-> <<>>]}
Adapter == [desc : Names, described : BOOLEAN]
AdapterLists ==
    {<<>>} \cup {<<a>> : a \in Adapter} \cup {<<a, b>> : a \in Adapter, b \in Adapter}

\* std::wstring gpuName; if (... Get(L"Name") ... != VT_NULL) gpuName = bstrVal;
GpuName(gpu) == IF gpu.named THEN gpu.name ELSE <<>>

\* gpu_info["vram_total"] = "N/A"; for (i = 0; EnumAdapters(i, ...) ...)
\*   if (GetDesc) if (lowerDesc.find(lowerName) != npos ||
\*       lowerName.find(lowerDesc) != npos) { vram_total = ...; break; }
RECURSIVE MatchVram(_, _, _)
MatchVram(gpu, adapters, i) ==
    IF i > Len(adapters) THEN NA
    ELSE LET lowerDesc == Lowered(adapters[i].desc)
             lowerName == Lowered(GpuName(gpu))
         IN IF /\ adapters[i].described
               /\ (Found(lowerDesc, lowerName) \/ Found(lowerName, lowerDesc))
            THEN VramString(Memories[i])
            ELSE MatchVram(gpu, adapters, i + 1)

InitGpu ==
    /\ Idle
    /\ arg \in [gpu : Gpus, adapters : AdapterLists]
    /\ result = None

\* getGPUInfo fills vram_total of one video controller.
GetGPUInfo ==
    /\ result = None
    /\ result' = MatchVram(arg.gpu, arg.adapters, 1)
    /\ UNCHANGED <<arg, programVars>>

NextGpu == GetGPUInfo

SpecGpu == InitGpu /\ [][NextGpu]_vars

\* ---------------------------------------------------------- getStorageInfo
\* A VARIANT: VT_NULL, or a BSTR holding the string str.
VtNull == <<>>
Bstr(str) == <<str>>

\* json null: what operator[] yields for a key that was never set.
JsonNull == <<"null">>

\* The string literals of getStorageInfo.
UnknownDisk == <<"Unknown Disk">>
Unknown == <<"Unknown">>
RemovableDisk == <<"Removable Disk">>
USB == <<"USB">>

\* Bytes outside both ranges of sanitizeString: the control characters (0x09)
\* and the bytes 0x80..0xC1, which hold every UTF-8 continuation byte (0xA9,
\* 0x82).
Dropped == {"TAB", "A9", "82"}

\* (c >= 0x20 && c <= 0x7E) || (c >= 0xC2 && c <= 0xF4)
Printable(c) == c \notin Dropped

\* find_first_not_of(" \t\r\n") and find_last_not_of(" \t\r\n")
Blank(c) == c \in {" ", "TAB"}
RECURSIVE TrimLeft(_)
TrimLeft(str) ==
    IF str # <<>> /\ Blank(Head(str)) THEN TrimLeft(Tail(str)) ELSE str
RECURSIVE TrimRight(_)
TrimRight(str) ==
    IF str # <<>> /\ Blank(str[Len(str)])
    THEN TrimRight(SubSeq(str, 1, Len(str) - 1)) ELSE str

\* sanitizeString: "N/A" for an empty input; unprintable characters become
\* spaces; the result is trimmed, "N/A" when nothing is left.
sanitizeString(input) ==
    IF input = <<>> THEN NA
    ELSE LET output == [i \in DOMAIN input |->
                            IF Printable(input[i]) THEN input[i] ELSE " "]
             trimmed == TrimRight(TrimLeft(output))
         IN IF trimmed = <<>> THEN NA ELSE trimmed

\* safeWMIString: "N/A" for VT_NULL, else the sanitized string.
safeWMIString(vtProp) ==
    IF vtProp = VtNull THEN NA ELSE sanitizeString(vtProp[1])

\* The DeviceIDs of the logical disks.
Drives == {"C:", "D:"}

\* A Win32_DiskDrive: its Model and InterfaceType, whether its Name can be
\* read, and the logical disks its partitions are associated with.
Disk == [model : {VtNull, Bstr(<<"m">>)},
         interface : {VtNull, Bstr(<<"s">>)},
         named : BOOLEAN,
         volumes : SUBSET Drives]
DiskLists ==
    {<<>>} \cup {<<a>> : a \in Disk}
           \cup {<<a, [b EXCEPT !.model = IF @ = VtNull THEN @ ELSE Bstr(<<"n">>)]>> :
                    a \in Disk, b \in Disk}

\* A Win32_LogicalDisk of DriveType 3 (local) or 2 (removable).
Labels == {VtNull, Bstr(<<>>), Bstr(<<"x">>), Bstr(<<"x", " ">>), Bstr(<<"TAB">>)}
Volume == [drive : Drives, local : BOOLEAN, label : Labels]

\* json disk_info of a physical disk: a key is set when the property is not NULL.
DiskInfo(d) ==
    [model |-> IF d.model = VtNull THEN JsonNull ELSE safeWMIString(d.model),
     interface |-> IF d.interface = VtNull THEN JsonNull
                   ELSE safeWMIString(d.interface)]

\* physicalDisks[logicalDrive] = disk_info; for every logical disk of every
\* partition of every disk whose Name is not NULL, in enumeration order.
RECURSIVE physicalDisks(_, _, _)
physicalDisks(disks, i, map) ==
    IF i > Len(disks) THEN map
    ELSE physicalDisks(disks, i + 1,
            [v \in Drives |->
                IF disks[i].named /\ v \in disks[i].volumes
                THEN <<DiskInfo(disks[i])>> ELSE map[v]])

\* The enrichment of one logical disk.
Enriched(map, vol) ==
    IF vol.local
    THEN IF map[vol.drive] # <<>>
         THEN [model |-> map[vol.drive][1].model,
               interface |-> map[vol.drive][1].interface]
         ELSE [model |-> UnknownDisk, interface |-> Unknown]
    ELSE [model |-> IF vol.label # VtNull THEN safeWMIString(vol.label)
                    ELSE RemovableDisk,
          interface |-> USB]

InitStorage ==
    /\ Idle
    /\ arg \in [disks : DiskLists, volume : Volume]
    /\ result = None

\* getStorageInfo builds the map and enriches one logical disk.
GetStorageInfo ==
    /\ result = None
    /\ result' = <<Enriched(physicalDisks(arg.disks, 1, [v \in Drives |-> <<>>]),
                            arg.volume)>>
    /\ UNCHANGED <<arg, programVars>>

NextStorage == GetStorageInfo

SpecStorage == InitStorage /\ [][NextStorage]_vars

\* ------------------------------------------- getDeviceId: the fingerprint
\* A value the system may fail to deliver: Failed, or Got(value).
Failed == <<>>
Got(x) == <<x>>

\* Win32_BaseBoard.SerialNumber (Failed: no WMI service, no board object, or
\* Get fails), GetComputerNameA (Failed: it returns FALSE),
\* SYSTEM_INFO.dwProcessorType and dwNumberOfProcessors.
Serials == {Failed, Got(<<"S">>), Got(<<"T", "1">>)}
HostNames == {Failed, Got(<<"H">>), Got(<<"G", "1">>)}
ProcessorTypes == {586, 8664}
ProcessorCounts == {4, 16}

\* The characters of the strings above and of std::to_string.
Alphabet == DecDigits \o <<"S", "T", "H", "G", "?">>
CharCode(c) == CHOOSE i \in DOMAIN Alphabet : Alphabet[i] = c

\* One 16-bit polynomial hash of a string, from a seed.
RECURSIVE Poly(_, _)
Poly(str, h) ==
    IF str = <<>> THEN h
    ELSE Poly(Tail(str), ((h + CharCode(Head(str))) * 435) % 65536)

\* The four nibbles of a 16-bit number, the most significant first.
Nibbles(n) == <<n \div 4096, (n \div 256) % 16, (n \div 16) % 16, n % 16>>

\* std::hash<std::string>{}(baseInfo): implementation-defined, and a function
\* of the characters of the string alone.  Four 16-bit polynomial hashes of
\* the string stand for the 64-bit value.
StdHash(str) ==
    Nibbles(Poly(str, 52210)) \o Nibbles(Poly(str, 40164))
        \o Nibbles(Poly(str, 33826)) \o Nibbles(Poly(str, 8997))

\* baseInfo += serial (when obtained); += computerName (when obtained);
\* += to_string(dwProcessorType); += to_string(dwNumberOfProcessors);
BaseInfo(in) ==
    (IF in.serial = Failed THEN <<>> ELSE in.serial[1])
        \o (IF in.host = Failed THEN <<>> ELSE in.host[1])
        \o Decimal(in.type) \o Decimal(in.count)

\* What a read of the computerName buffer yields when GetComputerNameA has
\* not written it: the buffer is uninitialised.
Indeterminate == {<<>>, <<"?">>, <<"?", "H">>}

\* Where a call of getDeviceId may meet an exception: nowhere, a
\* std::exception (of the string and stream code), or an exception of another
\* type (_com_error of _bstr_t).
Faults == {"none", "std", "other"}

\* The strings a call of getDeviceId may return: the formatted hash of
\* baseInfo; in the catch handler the computer name, read from the buffer
\* whether or not GetComputerNameA succeeded; nothing when the exception is
\* no std::exception.
DeviceIds(in, fault) ==
    CASE fault = "none" -> {FormatDeviceId(StdHash(BaseInfo(in)))}
      [] fault = "std" -> IF in.host = Failed THEN Indeterminate ELSE {in.host[1]}
      [] fault = "other" -> {}

\* The calls of getDeviceId explored.
MaxCalls == 2

InitIdentity ==
    /\ Idle
    /\ arg \in [serial : Serials, host : HostNames, type : ProcessorTypes,
                count : ProcessorCounts]
    /\ result = None

\* Thread t calls getDeviceId; `result` lists the calls that returned.
DeviceIdCall(t) ==
    /\ Len(result) < MaxCalls
    /\ \E fault \in Faults :
        IF DeviceIds(arg, fault) = {}
        THEN result' = result
        ELSE \E id \in DeviceIds(arg, fault) :
                result' = Append(result, [thread |-> t, fault |-> fault, id |-> id])
    /\ UNCHANGED <<arg, programVars>>

NextIdentity == \E t \in Clients : DeviceIdCall(t)

SpecIdentity == InitIdentity /\ [][NextIdentity]_vars

\* ---------------------------------------------------------- sanitizeString
\* Longest input explored.
MaxBytes == 3

\* The bytes of the inputs: space, tab, a letter, the lead byte of a two-byte
\* sequence (0xC3), of a three-byte sequence (0xE2), and two continuation
\* bytes (0xA9, 0x82): "\xC3\xA9" is e-acute, "\xE2\x82\xA9" the won sign.
Bytes == {" ", "TAB", "a", "C3", "E2", "A9", "82"}

\* The byte strings of at most MaxBytes bytes.
ByteStrings == UNION {[1..n -> Bytes] : n \in 0..MaxBytes}

\* The continuation bytes a lead byte announces (0 for an ASCII byte).
Announced(c) == IF c = "C3" THEN 1 ELSE IF c = "E2" THEN 2 ELSE 0

\* A continuation byte: 10xxxxxx.
Continuation(c) == c \in {"A9", "82"}

\* Well-formed UTF-8: every lead byte is followed by the continuation bytes
\* it announces, and no continuation byte stands alone.
RECURSIVE WellFormed(_)
WellFormed(str) ==
    IF str = <<>> THEN TRUE
    ELSE LET n == Announced(Head(str)) IN
         /\ ~Continuation(Head(str))
         /\ Len(str) > n
         /\ \A i \in 2..(n + 1) : Continuation(str[i])
         /\ WellFormed(SubSeq(str, n + 2, Len(str)))

InitSanitize == Idle /\ arg \in ByteStrings /\ result = None

\* std::string sanitizeString(const std::string& input)
SanitizeString ==
    /\ result = None
    /\ result' = Got(sanitizeString(arg))
    /\ UNCHANGED <<arg, programVars>>

NextSanitize == SanitizeString

SpecSanitize == InitSanitize /\ [][NextSanitize]_vars

\* --------------------------------------------------------------- WMISession
\* The HRESULTs of the COM calls of WMIHelper::initialize.  S_FALSE: COM was
\* already initialised on the thread (a success that must be balanced too);
\* RPC_E_CHANGED_MODE and RPC_E_TOO_LATE: the failures initialize ignores.
CoInitializeExResults == {"S_OK", "S_FALSE", "RPC_E_CHANGED_MODE", "E_FAIL"}
CoInitializeSecurityResults == {"S_OK", "RPC_E_TOO_LATE", "E_FAIL"}
CallResults == {"S_OK", "E_FAIL"}

\* The macro FAILED(hr).
FAILED(hr) == hr \notin {"S_OK", "S_FALSE"}

\* What the COM runtime answers to one WMISession.
ComAnswers ==
    [coInitializeEx : CoInitializeExResults,
     coInitializeSecurity : CoInitializeSecurityResults,
     coCreateInstance : CallResults,
     connectServer : CallResults,
     coSetProxyBlanket : CallResults]

\* The state of one WMISession: the HRESULT of initialize, the pointers held
\* (TRUE: not null), the calls of CoUninitialize and the Release calls made
\* on each interface so far.
Session(hr, pLoc, pSvc, uninits, locReleases, svcReleases) ==
    [hr |-> hr, pLoc |-> pLoc, pSvc |-> pSvc, uninits |-> uninits,
     locReleases |-> locReleases, svcReleases |-> svcReleases, alive |-> TRUE]

\* HRESULT WMIHelper::initialize(IWbemLocator** ppLoc, IWbemServices** ppSvc)
WMIHelper_initialize(com) ==
    IF FAILED(com.coInitializeEx) /\ com.coInitializeEx # "RPC_E_CHANGED_MODE"
    THEN Session(com.coInitializeEx, FALSE, FALSE, 0, 0, 0)
    ELSE IF /\ FAILED(com.coInitializeSecurity)
            /\ com.coInitializeSecurity # "RPC_E_TOO_LATE"
    THEN Session(com.coInitializeSecurity, FALSE, FALSE, 1, 0, 0)
    ELSE IF FAILED(com.coCreateInstance)
    THEN Session(com.coCreateInstance, FALSE, FALSE, 1, 0, 0)
    ELSE IF FAILED(com.connectServer)
    THEN Session(com.connectServer, TRUE, FALSE, 1, 1, 0)
    ELSE IF FAILED(com.coSetProxyBlanket)
    THEN Session(com.coSetProxyBlanket, TRUE, TRUE, 1, 1, 1)
    ELSE Session(com.coSetProxyBlanket, TRUE, TRUE, 0, 0, 0)

\* void WMIHelper::cleanup(IWbemLocator* pLoc, IWbemServices* pSvc)
WMIHelper_cleanup(s) ==
    [s EXCEPT !.svcReleases = IF s.pSvc THEN @ + 1 ELSE @,
              !.locReleases = IF s.pLoc THEN @ + 1 ELSE @,
              !.uninits = @ + 1]

\* if (FAILED(hr)) { pLoc = nullptr; pSvc = nullptr; }
ResetPointers(s) ==
    IF FAILED(s.hr) THEN [s EXCEPT !.pLoc = FALSE, !.pSvc = FALSE] ELSE s

InitSession == Idle /\ arg \in ComAnswers /\ result = None

\* WMISession::WMISession()
WMISession_ctor ==
    /\ result = None
    /\ result' = Got(ResetPointers(WMIHelper_initialize(arg)))
    /\ UNCHANGED <<arg, programVars>>

\* WMISession::~WMISession()
WMISession_dtor ==
    /\ result # None
    /\ result[1].alive
    /\ result' = Got([WMIHelper_cleanup(result[1]) EXCEPT !.pLoc = FALSE,
                                                         !.pSvc = FALSE,
                                                         !.alive = FALSE])
    /\ UNCHANGED <<arg, programVars>>

NextSession == WMISession_ctor \/ WMISession_dtor

SpecSession == InitSession /\ [][NextSession]_vars

\* ================================================================ claims
\* A value a consumer may rely on: the adapter's result or its documented
\* default.
Sound(v) == v.kind \in {"ok", "default"}

\* Both tiers hold all of their categories.
Populated ==
    /\ \A k \in StaticSet : Contains(cachedStaticInfo, k)
    /\ \A k \in DynamicSet : Contains(cachedDynamicInfo, k)

\* Thread th is between taking and releasing the lock_guard on cacheMutex.
Inside(th) ==
    IF th = BgThread
    THEN bgpc \in {"fast", "slow"}
    ELSE pc[th] \in {"init_static", "init_fast", "init_slow", "init_start",
                     "init_unlock", "gsi_refresh", "gsi_merge", "gsi_return",
                     "reg_refresh", "reg_merge"}

\* Client t is about to be handed the record info[t].
Returning(t) == pc[t] = "gsi_return"

\* The last call of client t was `op` and has returned `code`.
Returned(t, op, code) == pc[t] = "idle" /\ call[t].op = op /\ ret[t] = code

\* C1: when initialize() has returned without error both tiers hold all of
\* their categories, and the background task is started only on populated
\* tiers.
C1_InitPopulatesBothTiers ==
    (Returned(Controller, "init", "ok") \/ bgpc # "none") => Populated

\* C1, where it fails: the first initialize() of a process has returned
\* without error, the thread is started, and cpu and memory are not in the
\* dynamic tier.
C1_Reached ==
    /\ Returned(Controller, "init", "ok")
    /\ bgpc # "none"
    /\ ~Contains(cachedDynamicInfo, "cpu")
    /\ ~Contains(cachedDynamicInfo, "memory")

\* C2: every record returned by getSnapshot() after initialize() holds all
\* ten categories, each with the adapter's value or its sentinel.
C2_AllTenKeys ==
    \A t \in Clients :
        (Returning(t) /\ call[t].afterInit) =>
            \A k \in Keys : Contains(info[t], k) /\ Sound(info[t][k])

\* C2, where it fails: a record returned after initialize() without any
\* adapter fault that lacks cpu and memory.
C2_Reached ==
    \E t \in Clients :
        /\ Returning(t)
        /\ call[t].afterInit
        /\ mayFault
        /\ ~Contains(info[t], "cpu")
        /\ ~Contains(info[t], "memory")

\* C3: getSnapshot() never fails: when a static adapter faults during the
\* inline static refresh, the call still returns a record, the category holds
\* its default, an error is logged, and no error result reaches the caller.
C3_SnapshotNeverFails ==
    \A t \in Clients :
        (call[t].op = "gsi" /\ call[t].afterInit /\ call[t].faulted) =>
            /\ ret[t] # "nullptr"
            /\ Returning(t) =>
                /\ call[t].logged
                /\ \A k \in StaticSet : Sound(info[t][k])

\* C3, where it fails: after initialize(), a static adapter faulted in the
\* inline refresh and the caller got nullptr and an error code.
C3_Reached ==
    \E t \in Clients :
        /\ Returned(t, "gsi", "nullptr")
        /\ call[t].afterInit
        /\ call[t].refreshed
        /\ call[t].faulted
        /\ g_errorCode \in {2, 3}

\* C4: adapter failure isolation: whatever one adapter does, a background
\* iteration writes every fast category (the adapter's value or its default)
\* and goes on to updateSlowData, and a static refresh writes every static
\* category.
C4_FailureIsolation ==
    [][/\ (bgpc = "fast" /\ bgpc' # "fast") =>
            /\ bgpc' = "slow"
            /\ \A k \in FastSet :
                /\ cachedDynamicInfo'[k].pass = pass[BgThread]
                /\ Sound(cachedDynamicInfo'[k])
       /\ (bgpc = "slow" /\ bgpc' # "slow" /\ SlowDue(now)) =>
            \A k \in SlowSet :
                /\ cachedDynamicInfo'[k].pass = pass[BgThread]
                /\ Sound(cachedDynamicInfo'[k])
       /\ \A t \in Clients :
            (pc[t] = "gsi_refresh" /\ pc'[t] # "gsi_refresh") =>
                \A k \in StaticSet :
                    /\ cachedStaticInfo'[k].pass = pass[t]
                    /\ Sound(cachedStaticInfo'[k])]_vars

\* C4, where it fails: a background iteration in which an adapter faulted
\* has ended with a fast category that it did not write.
C4_Reached ==
    /\ bgpc = "sleep"
    /\ ~mayFault
    /\ g_errorCode = 0
    /\ \E k \in FastSet : cachedDynamicInfo[k].pass < cachedDynamicInfo["storage"].pass

\* C5: every access to the cache tiers is made by the thread that holds
\* cacheMutex: a thread between its lock and unlock owns the mutex, at most
\* one of the background iteration, initialize and the getSnapshot calls is
\* inside the cache, the record a getSnapshot hands back is the merge of
\* tiers that no background iteration is in the middle of writing, and every
\* step that changes cachedStaticInfo, cachedDynamicInfo or lastStaticUpdate
\* is taken while the mutex is held by a thread inside the cache.
C5_CacheUnderLock ==
    /\ [](/\ \A th \in Threads : Inside(th) => cacheMutex = th
          /\ Cardinality({th \in Threads : Inside(th)}) <= 1
          /\ \A t \in Clients :
                Returning(t) =>
                    /\ ~InIteration
                    /\ info[t] = Merged(cachedDynamicInfo, cachedStaticInfo))
    /\ [][<<cachedStaticInfo, cachedDynamicInfo, lastStaticUpdate>>' #
                <<cachedStaticInfo, cachedDynamicInfo, lastStaticUpdate>>
            => cacheMutex # Free /\ Inside(cacheMutex)]_vars

\* C5, its case: one client is about to be handed a record while another
\* client and the background thread both wait for the lock.
C5_Reached ==
    \E t \in Clients, u \in Clients :
        /\ Returning(t)
        /\ pc[u] = "gsi_lock"
        /\ bgpc = "lock"

\* C6: shutdown() returns only once the background task has left its loop,
\* also when it was called in the middle of an iteration, and after it has
\* returned the task invokes no adapter and writes nothing.
C6_ShutdownJoins ==
    /\ Returned(Controller, "cleanup", "ok") => bgpc \in {"none", "exited"}
    /\ hist.shutdownReturned => bgpc \notin {"lock", "fast", "slow", "sleep"}

\* C6, its case: shutdown() was called during an iteration and has returned.
C6_Reached ==
    /\ Returned(Controller, "cleanup", "ok")
    /\ call[Controller].midIteration
    /\ bgpc = "exited"

\* C7: a getSnapshot() call runs the static adapters iff, when it holds the
\* lock, the static tier is empty or lastStaticUpdate is at least 60 s old;
\* and a record of the same static refresh as the record returned before it
\* carries the same static values.
C7_StaticRefreshIffExpired ==
    \A t \in Clients :
        /\ pc[t] = "gsi_refresh" => call[t].expired
        /\ pc[t] \in {"gsi_merge", "gsi_return"} =>
                (call[t].refreshed <=> call[t].expired)
        /\ (Returning(t) /\ call[t].gen = hist.lastGen) =>
                \A k \in StaticSet : info[t][k] = hist.lastStatic[k]

\* C7, its case: after a refresh caused by the 60 s expiry, a second call
\* within the TTL is about to return a record without having run the static
\* adapters.
C7_Reached ==
    \E t \in Clients :
        /\ Returning(t)
        /\ ~call[t].refreshed
        /\ call[t].gen = hist.lastGen
        /\ hist.ttlRefresh
        /\ lastStaticUpdate >= 1000 * STATIC_CACHE_DURATION_SEC

\* The scheduler is running: the update thread is in its loop and has not been
\* told to stop.
SchedulerRunning == running /\ bgpc \notin {"none", "exited"} /\ ~terminated

\* C8 as stated: while the scheduler is running, no fast and no slow category
\* is ever older than 1 s (every window of 1 s or more holds a refresh of
\* each).
C8_AsStated ==
    SchedulerRunning =>
        /\ now - hist.fastAt <= 1000 * SlowIntervalSec
        /\ now - lastSlowUpdate <= 1000 * SlowIntervalSec

\* C8, amended: while the scheduler is running and a loop iteration takes at
\* most Period from sleep to sleep, every window of one Period or more holds a
\* refresh of the fast categories and every window of 1 s plus one Period or
\* more holds a refresh of the slow categories.
C8_Cadence ==
    SchedulerRunning =>
        /\ now - hist.fastAt <= Period
        /\ now - lastSlowUpdate <= 1000 * SlowIntervalSec + Period

\* C8, its case: the thread has refreshed the slow categories more than 1 s
\* after the previous slow refresh, and has run a fast-only iteration since.
C8_Reached ==
    /\ SchedulerRunning
    /\ bgpc = "sleep"
    /\ cachedDynamicInfo["cpu"].pass > 1
    /\ cachedDynamicInfo["storage"].pass > cachedDynamicInfo["cpu"].pass
    /\ lastSlowUpdate > 1000 * SlowIntervalSec

\* C9: a record never carries a dynamic category from an older adapter
\* invocation than a record returned before the call started, and no step
\* replaces a category of the dynamic tier by the result of an older
\* adapter invocation.
C9_MonotonicStaleness ==
    /\ [](\A t \in Clients :
            Returning(t) =>
                \A k \in DynamicSet : info[t][k].pass >= call[t].floor[k])
    /\ [][\A k \in DynamicSet :
            cachedDynamicInfo'[k].pass >= cachedDynamicInfo[k].pass]_vars

\* C9, its case: a record that carries a newer fast category than the record
\* returned before.
C9_Reached ==
    \E t \in Clients :
        /\ Returning(t)
        /\ call[t].floor["storage"] > 0
        /\ info[t]["storage"].pass > call[t].floor["storage"]

\* C10: getSnapshot() before initialize() does not hand back a record.
C10_FailsLoudlyBeforeInit ==
    \A t \in Clients :
        (call[t].op = "gsi" /\ call[t].beforeInit) =>
            ~Returning(t) /\ ret[t] # "json"

\* C10, where it fails: a call made before initialize() has returned a record
\* and no error code is set.
C10_Reached ==
    \E t \in Clients :
        /\ Returned(t, "gsi", "json")
        /\ call[t].beforeInit
        /\ g_errorCode = 0

\* C11: a shutdown() called after a shutdown() has returned (and no
\* initialize() since) does not return normally: it signals an invalid state.
C11_SecondShutdownFailsLoudly ==
    (call[Controller].op = "cleanup" /\ call[Controller].afterShutdown) =>
        ~(Returned(Controller, "cleanup", "ok") /\ g_errorCode = 0)

\* C11, where it fails: the second shutdown() has returned like the first and
\* no error code is set.
C11_Reached ==
    /\ Returned(Controller, "cleanup", "ok")
    /\ call[Controller].afterShutdown
    /\ hist.initReturned
    /\ g_errorCode = 0

\* C12: while the collector is stopped (shutdown() has returned, no
\* initialize() since) no step changes the dynamic tier, and a record handed
\* back by a getSnapshot() called in that time carries the dynamic tier's
\* values for each dynamic category it holds.
C12_ReadAfterShutdown ==
    /\ [](\A t \in Clients :
            (Returning(t) /\ call[t].afterShutdown /\ hist.stopped) =>
                \A k \in DynamicSet :
                    Contains(info[t], k) => info[t][k] = cachedDynamicInfo[k])
    /\ [][(hist.stopped /\ hist'.stopped) =>
            cachedDynamicInfo' = cachedDynamicInfo]_vars

\* C12, its case: after initialize(), background refreshes and shutdown(), a
\* getSnapshot() is about to hand back a record with the thread's last values.
C12_Reached ==
    \E t \in Clients :
        /\ Returning(t)
        /\ call[t].afterShutdown
        /\ hist.stopped
        /\ info[t]["storage"].pass > 1
        /\ info[t]["storage"] = cachedDynamicInfo["storage"]

\* C13: every RegisterChangeCallback call with a non-null callback has invoked
\* that callback exactly once when it returns; a call with a null callback
\* and an UnregisterChangeCallback call have invoked nothing; and no step
\* outside RegisterChangeCallback invokes the callback.
C13_PushOnceOnRegister ==
    \A t \in Clients :
        /\ Returned(t, "register", "ok") =>
                call[t].invoked = IF call[t].callback = "null" THEN 0 ELSE 1
        /\ call[t].op # "register" => call[t].invoked = 0
        /\ call[t].invoked <= 1

\* C13, where it fails: a registration with a non-null callback has returned,
\* the callback is stored, and it was never invoked: a static adapter threw
\* inside getSystemInfo and catch (...) swallowed the exception.
C13_Reached ==
    \E t \in Clients :
        /\ Returned(t, "register", "ok")
        /\ call[t].callback = "cb"
        /\ g_callback = "cb"
        /\ call[t].faulted
        /\ call[t].invoked = 0
        /\ g_callbackMutex = Free

StoresLastError(t) ==
    /\ pc[t] \in {"gsi_refresh", "init_static", "init_fast", "init_slow"}
    /\ pc'[t] = "idle"
    /\ ret'[t] \in {"nullptr", "error"}

\* C15: no shared mutable state is written by one thread while another reads
\* or writes it without a lock or an atomic: in particular the last-error
\* message is never assigned while another thread is reading it, and every
\* message handed back by GetSystemInfoErrorMessage is a message that was
\* stored.
C15_NoRacyAccess ==
    /\ [](\A u \in Clients : Returned(u, "errmsg", ret[u]) => ret[u] # "garbage")
    /\ [][\A t \in Clients :
            StoresLastError(t) =>
                \A u \in Clients \ {t} : pc[u] # "gem_read"]_vars

\* C15, where it fails: a GetSystemInfoErrorMessage call overlapped the
\* assignment of g_lastError by a failing GetSystemInfoJson and handed back
\* neither the old nor the new message.
C15_Reached ==
    \E u \in Clients :
        /\ Returned(u, "errmsg", "garbage")
        /\ g_lastError # ""
        /\ g_errorCode \in {2, 3}

\* Thread th is at a point where it runs the adapter of category k: the
\* static adapters in initializeCache and in the refresh of getSystemInfo, the
\* fast adapters in updateFastData, the slow ones in updateSlowData when due.
Invoking(th, k) ==
    IF th = BgThread
    THEN \/ bgpc = "fast" /\ k \in FastSet
         \/ bgpc = "slow" /\ SlowDue(now) /\ k \in SlowSet
    ELSE \/ pc[th] \in {"init_static", "gsi_refresh", "reg_refresh"} /\ k \in StaticSet
         \/ pc[th] = "init_fast" /\ k \in FastSet
         \/ pc[th] = "init_slow" /\ SlowDue(now) /\ k \in SlowSet

\* C16: for every category, at most one thread (of initialize, the getSnapshot
\* and registration calls of several threads, and the update thread) is
\* running that category's adapter.
C16_OneAdapterAtATime ==
    \A k \in Keys : Cardinality({th \in Threads : Invoking(th, k)}) <= 1

\* C16, its case: a registration runs the static adapters while a getSnapshot
\* call that would run them too, and the update thread, wait for the lock.
C16_Reached ==
    \E t \in Clients, u \in Clients :
        /\ pc[t] = "reg_refresh"
        /\ pc[u] = "gsi_lock"
        /\ StaticExpired(now)
        /\ bgpc = "lock"

\* C17: no consumer callback is invoked by a thread that holds cacheMutex:
\* the log callback is never invoked under the lock, and a thread about to
\* invoke the push callback does not hold it.
C17_NoCallbackUnderLock ==
    /\ logSeen # "held"
    /\ \A t \in Clients : pc[t] = "reg_invoke" => cacheMutex # t

\* C17, where it fails: the update thread holds cacheMutex inside its
\* iteration and has just invoked the installed log callback.
C17_Reached ==
    /\ g_logCallback = "noop"
    /\ logSeen = "held"
    /\ bgpc = "fast"
    /\ cacheMutex = BgThread

\* The characters of a lowercase hexadecimal number.
LowerHex == {HexDigits[i] : i \in DOMAIN HexDigits}

\* C20: for every value of the 64-bit hash the device identity is 36
\* characters long: groups of 8, 4, 4, 4 and 12 lowercase hexadecimal digits
\* with a hyphen between them, zero-padded and never longer.
C20_DeviceIdFormat ==
    result # None =>
        /\ Len(result) = 36
        /\ \A i \in 1..36 :
              IF i \in {9, 14, 19, 24} THEN result[i] = "-"
                                       ELSE result[i] \in LowerHex

\* C20, its case: the identity of a hash with zero high bits in every group
\* has been formatted: the groups are padded with zeros.
C20_Reached ==
    /\ arg[9] = 0 /\ arg[13] = 0 /\ arg[5] = 0 /\ arg[1] = 0
    /\ arg[16] # 0
    /\ result # None
    /\ result[1] = "0" /\ result[10] = "0" /\ result[25] = "0"

\* The adapters whose description was obtained and, lower-cased, contains or
\* is contained in the lower-cased name.
Matching(name, adapters) ==
    {i \in DOMAIN adapters :
        /\ adapters[i].described
        /\ \/ Found(Lowered(adapters[i].desc), Lowered(name))
           \/ Found(Lowered(name), Lowered(adapters[i].desc))}

\* C19: the VRAM of a GPU is that of the first adapter, in enumeration order,
\* whose lower-cased description contains or is contained in the lower-cased
\* GPU name, and "N/A" when no adapter matches or the GPU's name could not be
\* obtained.
C19_VramFirstMatch ==
    result # None =>
        LET M == Matching(arg.gpu.name, arg.adapters) IN
        result = IF ~arg.gpu.named \/ M = {} THEN NA
                 ELSE VramString(Memories[CHOOSE i \in M : \A j \in M : i <= j])

\* C19, where it fails: a GPU whose name could not be obtained was given the
\* VRAM of the first adapter.
C19_Reached ==
    /\ result \notin {None, NA}
    /\ ~arg.gpu.named
    /\ arg.adapters # <<>>
    /\ result = VramString(Memories[1])

\* The disks associated (through a partition) with the logical disk v.
Associated(disks, v) ==
    {i \in DOMAIN disks : disks[i].named /\ v \in disks[i].volumes}

\* The value a property has (json null when it has none).
Reported(vtProp) == IF vtProp = VtNull THEN JsonNull ELSE vtProp[1]

\* C18: a Local volume associated with a physical disk gets the model and
\* interface of an associated disk; a Local volume associated with none gets
\* "Unknown Disk" and "Unknown"; a Removable volume gets its volume label as
\* model ("Removable Disk" when it has no label) and interface "USB",
\* whatever the association map holds.
C18_DiskVolumeEnrichment ==
    result # None =>
        LET vol == arg.volume
            A == Associated(arg.disks, vol.drive)
        IN IF vol.local
           THEN IF A # {}
                THEN \E i \in A :
                        /\ result[1].model = Reported(arg.disks[i].model)
                        /\ result[1].interface = Reported(arg.disks[i].interface)
                ELSE result[1] = [model |-> UnknownDisk, interface |-> Unknown]
           ELSE /\ result[1].interface = USB
                /\ result[1].model =
                        IF vol.label = VtNull THEN RemovableDisk
                        ELSE vol.label[1]

\* C18, where it fails: a Removable volume whose label is the empty string
\* was given the model "N/A".
C18_Reached ==
    /\ result # None
    /\ ~arg.volume.local
    /\ arg.volume.label = Bstr(<<>>)
    /\ result[1].model = NA
    /\ result[1].interface = USB

\* C21: for fixed inputs (board serial, host name, architecture code,
\* processor count) every call of getDeviceId that returns, returns the same
\* string, whichever thread calls it and whatever was called before.
C21_DeviceIdDeterministic ==
    \A i \in DOMAIN result, j \in DOMAIN result : result[i].id = result[j].id

\* C21, where it fails: with the same inputs, one thread was given the
\* formatted hash and another thread, whose call met a std::exception, a
\* different string.
C21_Reached ==
    /\ Len(result) = 2
    /\ result[1].thread # result[2].thread
    /\ result[1].fault = "none"
    /\ result[1].id = FormatDeviceId(StdHash(BaseInfo(arg)))
    /\ result[2].fault = "std"
    /\ result[2].id # result[1].id

\* The string is a formatted hash: 8-4-4-4-12 lowercase hexadecimal digits.
HashFormat(id) ==
    /\ Len(id) = 36
    /\ \A i \in 1..36 :
          IF i \in {9, 14, 19, 24} THEN id[i] = "-" ELSE id[i] \in LowerHex

\* C27: when the board serial is unobtainable the identity is the formatted
\* hash of host name, architecture code and processor count; when the host
\* name is unobtainable as well, the identity is no hash.
C27_DeviceIdFallback ==
    \A i \in DOMAIN result :
        arg.serial = Failed =>
            IF arg.host # Failed
            THEN result[i].id =
                    FormatDeviceId(StdHash(arg.host[1] \o Decimal(arg.type)
                                            \o Decimal(arg.count)))
            ELSE ~HashFormat(result[i].id)

\* C27, where it fails: neither the serial nor the host name could be
\* obtained, no exception was met, and the identity returned is the formatted
\* hash of the processor fields.
C27_Reached ==
    /\ arg.serial = Failed
    /\ arg.host = Failed
    /\ result # None
    /\ result[1].fault = "none"
    /\ result[1].id = FormatDeviceId(StdHash(Decimal(arg.type) \o Decimal(arg.count)))
    /\ HashFormat(result[1].id)

\* The characters i..j of the identity.
Digits(i, j) == SubSeq(result, i, j)

\* The hexadecimal digits of the nibbles i..j of the hash.
HashDigits(i, j) == [k \in 1..(j - i + 1) |-> HexDigits[arg[i + k - 1] + 1]]

\* C28 as stated: the 16 bits shown in group 3 are the hash bits shown as the
\* lowest 16 bits of group 5.
C28_AsStated ==
    result # None => Digits(15, 18) = Digits(33, 36)

\* C28, amended: the five groups are slices of one 64-bit hash value: group 1
\* shows bits 0..31, group 2 bits 16..31, group 3 bits 32..47, group 4 bits
\* 48..63 and group 5 bits 0..47; so group 3 is the highest 16 bits shown in
\* group 5 (its first four digits), group 2 its middle four digits, and
\* group 1 its last eight.
C28_GroupsOverlap ==
    result # None =>
        /\ Digits(1, 8) = HashDigits(9, 16)
        /\ Digits(10, 13) = HashDigits(9, 12)
        /\ Digits(15, 18) = HashDigits(5, 8)
        /\ Digits(20, 23) = HashDigits(1, 4)
        /\ Digits(25, 36) = HashDigits(5, 16)
        /\ Digits(15, 18) = Digits(25, 28)
        /\ Digits(10, 13) = Digits(29, 32)
        /\ Digits(1, 8) = Digits(29, 36)

\* C28, its case: the identity of a hash whose bits 32..47 differ from its
\* bits 0..15: group 3 repeats the head of group 5, not its tail.
C28_Reached ==
    /\ result # None
    /\ SubSeq(arg, 5, 8) # SubSeq(arg, 13, 16)
    /\ Digits(15, 18) = Digits(25, 28)
    /\ Digits(15, 18) # Digits(33, 36)

\* The order of the positions of the update thread.
IterationOrder ==
    {<<"none", "check">>, <<"check", "lock">>, <<"check", "exited">>,
     <<"lock", "fast">>, <<"fast", "slow">>, <<"fast", "sleep">>,
     <<"slow", "sleep">>, <<"sleep", "check">>, <<"exited", "check">>}

\* C22: each background iteration takes the lock, runs updateFastData (which
\* writes storage, battery and network unless an adapter throws), then applies
\* the slow-cadence gate, releases the lock and sleeps 100 ms; updateFastData
\* runs in every iteration; the thread holds the lock exactly between taking
\* it and the end of the block, never while it sleeps, also when an exception
\* ended the iteration.
C22_IterationOrder ==
    /\ [](/\ bgpc \in {"fast", "slow"} => cacheMutex = BgThread
          /\ bgpc \notin {"fast", "slow"} => cacheMutex # BgThread)
    /\ [][/\ bgpc' # bgpc => <<bgpc, bgpc'>> \in IterationOrder
          /\ (bgpc = "lock" /\ bgpc' # "lock") =>
                cacheMutex = Free /\ cacheMutex' = BgThread
          /\ (bgpc = "fast" /\ bgpc' = "slow") =>
                \A k \in FastSet : cachedDynamicInfo'[k].pass = pass[BgThread]
          /\ (bgpc = "fast" /\ bgpc' = "sleep") => (mayFault /\ ~mayFault')
          /\ bgpc # "fast" =>
                \A k \in FastSet :
                    cachedDynamicInfo'[k] # cachedDynamicInfo[k] =>
                        \E t \in Clients : pc[t] = "init_fast"
          /\ (bgpc # "sleep" /\ bgpc' = "sleep") =>
                cacheMutex' = Free /\ wakeAt' = now + LoopSleepMs
          /\ (bgpc = "sleep" /\ bgpc' # "sleep") => now >= wakeAt]_vars

\* C22, its case: the thread sleeps after its second iteration, which ran the
\* fast adapters again; the lock is free.
C22_Reached ==
    /\ bgpc = "sleep"
    /\ cacheMutex = Free
    /\ wakeAt = now + LoopSleepMs
    /\ \A k \in FastSet : cachedDynamicInfo[k].pass = 3
    /\ running

\* A thread runs updateSlowData in this step and the gate is open: cpu and
\* memory adapters are invoked.
SlowInvoked ==
    /\ SlowDue(now)
    /\ \/ bgpc = "slow" /\ bgpc' # "slow"
       \/ \E t \in Clients : pc[t] = "init_slow" /\ pc'[t] # "init_slow"

\* C23: the cpu and memory adapters are invoked only when at least 1 s has
\* elapsed since their last invocation; the gate reads lastSlowUpdate alone;
\* and lastSlowUpdate, once initialised, changes only in a step that ran the
\* slow adapters.
C23_SlowGate ==
    [][/\ SlowInvoked =>
            (hist.slowAt < 0 \/ now - hist.slowAt >= 1000 * SlowIntervalSec)
       /\ SlowInvoked =>
            (lastSlowUpdate >= 0 /\ now - lastSlowUpdate >= 1000 * SlowIntervalSec)
       /\ (lastSlowUpdate >= 0 /\ lastSlowUpdate' # lastSlowUpdate) =>
            (SlowInvoked /\ lastSlowUpdate' = now)]_vars

\* C23, where it fails: the update thread invoked the slow adapters, one of
\* them threw, and 100 ms later the gate is open again: the thread is about to
\* invoke them a second time within the same second.
C23_Reached ==
    /\ bgpc = "slow"
    /\ SlowDue(now)
    /\ hist.slowAt >= 0
    /\ now - hist.slowAt = LoopSleepMs
    /\ ~mayFault

\* An adapter throws in this step of the update thread: updateFastData does
\* not reach its end, or updateSlowData runs the adapters and does not.
BgThrows ==
    \/ bgpc = "fast" /\ bgpc' \notin {"fast", "slow"}
    \/ /\ bgpc = "slow" /\ bgpc' # "slow" /\ SlowDue(now)
       /\ \E k \in SlowSet : cachedDynamicInfo'[k].pass # pass[BgThread]

\* The categories the update thread wrote in this step.
BgWritten == {k \in DynamicSet : cachedDynamicInfo'[k].pass = pass[BgThread]}

\* C24: when an adapter throws inside a background iteration, the exception
\* is caught and logged (the installed log callback is invoked, without the
\* lock), the lock is released, the thread goes to its sleep, and the category
\* whose adapter threw (like those after it) keeps its cached value; and
\* after such an iteration, as long as the running flag is set (and the
\* process is not terminated), a further iteration follows.
C24_LoopSurvivesException ==
    /\ [][BgThrows =>
            /\ cacheMutex = BgThread /\ cacheMutex' = Free
            /\ bgpc' = "sleep" /\ wakeAt' = now + LoopSleepMs
            /\ running' = running /\ ~terminated'
            /\ g_logCallback # "null" => logSeen' = "free"
            /\ \A k \in DynamicSet \ BgWritten :
                    cachedDynamicInfo'[k] = cachedDynamicInfo[k]
            /\ DynamicSet \ BgWritten # {}]_vars
    /\ (/\ bgpc = "sleep" /\ ~mayFault /\ passes < passLimit
        /\ (ticks < MaxTicks \/ now >= wakeAt))
            ~> (bgpc = "fast" \/ ~running \/ terminated)

\* C24, its case: the network adapter threw in the thread's first iteration
\* (storage and battery are of that iteration, network is still of
\* initialize), the thread slept, and it is in its next iteration.
C24_Reached ==
    /\ bgpc = "fast"
    /\ running
    /\ pass[BgThread] = 3
    /\ cachedDynamicInfo["storage"].pass = 2
    /\ cachedDynamicInfo["battery"].pass = 2
    /\ cachedDynamicInfo["network"] = Val(1, "ok")

\* Tiers that hold category k and may collide on "gpu", which no reachable
\* state does.
Colliding(k) ==
    {[NullJson EXCEPT ![k] = Val(1, "ok"), !["gpu"] = v] :
        v \in {Absent, Val(1, "ok"), Val(2, "ok"), Val(2, "default")}}

\* The value the tiers give category k: the static tier's when it holds k,
\* else the dynamic tier's.
Preceding(dynamic, static, k) ==
    IF Contains(static, k) THEN static[k] ELSE dynamic[k]

BgSteps == bgpc \notin {"none", "exited"} /\ bgpc' # bgpc

\* Client t takes this step inside a GetSystemInfoJson call, or begins one.
GsiSteps(t) ==
    \/ pc[t] \in {"gsi_lock", "gsi_refresh", "gsi_merge", "gsi_return"}
            /\ pc'[t] # pc[t]
    \/ pc[t] = "idle" /\ pc'[t] = "gsi_lock"

\* C26: a step of the update thread leaves the static tier and
\* lastStaticUpdate unchanged; a step of a getSnapshot() call leaves the
\* dynamic tier and lastSlowUpdate unchanged, and changes the static tier or
\* lastStaticUpdate only in its refresh, which it makes only when it found the
\* static tier empty or at least 60 s old.
C26_WriterSeparation ==
    [][/\ BgSteps =>
            /\ cachedStaticInfo' = cachedStaticInfo
            /\ lastStaticUpdate' = lastStaticUpdate
       /\ \A t \in Clients :
            GsiSteps(t) =>
                /\ cachedDynamicInfo' = cachedDynamicInfo
                /\ lastSlowUpdate' = lastSlowUpdate
                /\ <<cachedStaticInfo, lastStaticUpdate>>' #
                        <<cachedStaticInfo, lastStaticUpdate>>
                    => (pc[t] = "gsi_refresh" /\ call[t].expired)]_vars

\* C26, its case: after initialize() and an iteration of the update thread, a
\* getSnapshot() call has replaced the expired static tier; the dynamic tier
\* is the thread's.
C26_Reached ==
    \E t \in Clients :
        /\ pc[t] = "gsi_merge"
        /\ call[t].afterInit
        /\ call[t].refreshed
        /\ lastStaticUpdate = tnow[t]
        /\ lastStaticUpdate >= 1000 * STATIC_CACHE_DURATION_SEC
        /\ \A k \in StaticSet : cachedStaticInfo[k].pass = pass[t]
        /\ cachedDynamicInfo["storage"].pass = 2
        /\ bgpc = "sleep"

\* --------------------------------------------------------------------- C29
\* Thread th takes `mutex` in this step.
Acquires(th, before, after) == after = th /\ before # th

\* The locks are taken in the order g_callbackMutex, cacheMutex, g_logMutex:
\* a thread that takes g_callbackMutex holds neither of the others, a thread
\* that takes cacheMutex does not hold g_logMutex, and a thread that holds
\* g_logMutex takes no other lock.
LockOrder ==
    \A th \in Threads :
        /\ Acquires(th, g_callbackMutex, g_callbackMutex')
            => cacheMutex # th /\ g_logMutex # th
        /\ Acquires(th, cacheMutex, cacheMutex') => g_logMutex # th
        /\ g_logMutex = th => /\ ~Acquires(th, cacheMutex, cacheMutex')
                              /\ ~Acquires(th, g_callbackMutex, g_callbackMutex')

\* The refresh passes or the clock advances explored are used up.
OutOfPasses == passes >= passLimit
OutOfTime == ticks >= MaxTicks /\ bgpc = "sleep" /\ now < wakeAt

\* Client t is inside a call and cannot take its next step.
BlockedClient(t) == pc[t] # "idle" /\ ~ENABLED LockStep(t)

\* The update thread runs and cannot take its next step (a sleeping thread
\* waits for the clock, not for a lock).
BlockedBg == bgpc \in {"check", "lock", "fast", "slow"} /\ ~ENABLED Background

\* The process runs, some thread is inside a call or the loop, and every such
\* thread is blocked.
Deadlocked ==
    /\ ~terminated
    /\ \/ \E t \in Clients : pc[t] # "idle"
       \/ bgpc \in {"check", "lock", "fast", "slow"}
    /\ \A t \in Clients : pc[t] = "idle" \/ BlockedClient(t)
    /\ bgpc \in {"none", "exited"} \/ BlockedBg

\* The call client t is inside cannot go on in the part of the behaviour
\* explored: it waits for a refresh pass or for a sleeping update thread.
Cut(t) ==
    \/ OutOfPasses /\ pc[t] \in {"init_lock", "gsi_lock", "reg_lock", "cl_join"}
    \/ OutOfTime /\ pc[t] = "cl_join"

\* The call client t is inside returns.
Returns(t) == (pc[t] # "idle") ~> (pc[t] = "idle" \/ Cut(t))

\* The call client t is inside returns, or the process is ended.
ReturnsOrAborts(t) == (pc[t] # "idle") ~> (pc[t] = "idle" \/ Cut(t) \/ terminated)

\* C29: the locks are always taken in the order callback mutex, cacheMutex,
\* log mutex; for every interleaving of InitializeCache, GetSystemInfoJson,
\* RegisterChangeCallback, UnregisterChangeCallback, SetLogCallback,
\* CleanupSystemInfo and the update thread no state is reached in which every
\* thread is blocked; and every call returns when the adapters return and
\* lock acquisition is fair.
C29_DeadlockFreedom ==
    /\ [][LockOrder]_vars
    /\ [](~OutOfPasses => ~Deadlocked)
    /\ \A t \in Clients : Returns(t)

\* The lock order and the absence of a state in which every thread is blocked.
LocksSafe == [][LockOrder]_vars /\ [](~OutOfPasses => ~Deadlocked)

\* Every call returns unless the process is ended.
LocksLive == \A t \in Clients : ReturnsOrAborts(t)

\* The controller is inside a second InitializeCache that found the update
\* thread of the first one joinable: std::terminate was called; another
\* client is inside RegisterChangeCallback holding g_callbackMutex.
C29_Reached ==
    /\ terminated
    /\ pc[Controller] = "init_start"
    /\ joinable
    /\ hist.initReturned
    /\ ~OutOfPasses
    /\ \E t \in Clients \ {Controller} : g_callbackMutex = t

\* --------------------------------------------------------------------- C30
\* initializeCache is between taking and releasing its lock_guard.
Initializing ==
    pc[Controller] \in {"init_static", "init_fast", "init_slow", "init_start",
                        "init_unlock"}

\* updateThread = std::thread(updateDynamicDataThread) in this step.
ThreadCreated == bgpc \in {"none", "exited"} /\ bgpc' = "check"

\* The update thread writes the dynamic tier in this step.
BgWrites == bgpc \in {"fast", "slow"} /\ cachedDynamicInfo' # cachedDynamicInfo

\* A thread other than the initializing one reads the cache in this step: a
\* getSnapshot that tests, refreshes or merges, or an iteration of the loop.
Observes ==
    \/ bgpc \in {"fast", "slow"} /\ bgpc' # bgpc
    \/ \E t \in Clients :
        /\ pc[t] \in {"gsi_lock", "gsi_refresh", "gsi_merge"}
        /\ pc'[t] # pc[t]
        /\ cacheMutex' = t \/ cacheMutex = t

\* The thread is created under the lock of initializeCache, and the cache is
\* written by the update thread and read by the others only while
\* initializeCache is outside its critical section; the update thread does
\* neither before an initializeCache has returned.
InitOrdering ==
    [][/\ ThreadCreated => /\ cacheMutex = Controller
                           /\ cacheMutex' = Controller
                           /\ pc[Controller] = "init_start"
       /\ BgWrites => hist.initReturned /\ ~Initializing
       /\ Observes => ~Initializing
       /\ (bgpc \in {"fast", "slow"} /\ bgpc' # bgpc) => hist.initReturned]_vars

\* C30: the update thread is created while initializeCache holds cacheMutex;
\* it writes the dynamic tier only once initializeCache has populated both
\* tiers and released the lock; and once an initializeCache has returned
\* without error no getSystemInfo and no iteration of the loop reads a cache
\* that lacks one of its categories.
C30_InitAtomic ==
    [][/\ ThreadCreated => cacheMutex = Controller /\ cacheMutex' = Controller
       /\ BgWrites => hist.initReturned /\ ~Initializing /\ Populated
       /\ (Observes /\ hist.initReturned) => ~Initializing /\ Populated]_vars

\* C30, where it fails: initializeCache has returned without error and
\* released the lock, the update thread holds it for its first write with cpu
\* and memory absent from the dynamic tier, and a second client waits to read.
C30_Reached ==
    /\ Returned(Controller, "init", "ok")
    /\ bgpc = "fast"
    /\ cacheMutex = BgThread
    /\ hist.fastAt = 0
    /\ passes = 2
    /\ \A k \in StaticSet \cup FastSet : Contains(cachedDynamicInfo, k)
                                         \/ Contains(cachedStaticInfo, k)
    /\ ~Contains(cachedDynamicInfo, "cpu")
    /\ ~Contains(cachedDynamicInfo, "memory")
    /\ \E t \in Clients \ {Controller} : pc[t] = "gsi_lock"

\* --------------------------------------------------------------------- C31
\* The update thread is inside its loop: past the test of `running`.
Iterating == bgpc \in {"lock", "fast", "slow", "sleep"}

RefreshAborted(t) == Returned(t, "gsi", "nullptr") /\ call[t].refreshed

\* An exception leaves the static refresh of client t in this step.
RefreshAborts(t) == pc[t] = "gsi_refresh" /\ pc'[t] = "idle"

\* C32: a static refresh of getSystemInfo that an exception ends part-way
\* leaves lastStaticUpdate as it was and releases cacheMutex, and the next
\* getSystemInfo finds the static tier expired and refreshes again.
C32_AbortedRefreshRetried ==
    /\ [][\A t \in Clients : RefreshAborts(t) =>
            /\ lastStaticUpdate' = lastStaticUpdate
            /\ cacheMutex = t
            /\ cacheMutex' = Free]_vars
    /\ [](\A t \in Clients : RefreshAborted(t) => StaticExpired(now))

\* C32, where it fails: the refresh of a getSystemInfo made before any
\* initializeCache wrote deviceId and was then ended by an exception; the
\* lock is free, lastStaticUpdate is still the default time_point, the tier
\* is no longer empty and lacks the other categories, and the expiry test is
\* false.
C32_Reached ==
    /\ RefreshAborted(Controller)
    /\ call[Controller].beforeInit
    /\ cacheMutex = Free
    /\ lastStaticUpdate = 0
    /\ Contains(cachedStaticInfo, "deviceId")
    /\ ~Contains(cachedStaticInfo, "audio")
    /\ ~StaticExpired(now)

\* --------------------------------------------------------------------- C33
\* GetSystemInfoJson of client t returns in this step.
GsiEnds(t) == pc[t] \in {"gsi_refresh", "gsi_return"} /\ pc'[t] = "idle"

CallFails(t) ==
    /\ pc[t] # "idle"
    /\ pc'[t] = "idle"
    /\ ret'[t] \in {"nullptr", "error", "exception"}

\* The codes an exported function assigns to g_errorCode.
CodesOf(op) == IF op = "init" THEN {7} ELSE {1, 2, 3}

\* The error code never goes back to 0.
Sticky == [][g_errorCode # 0 => g_errorCode' # 0]_vars

\* C34: the last-error code starts at 0, every failing call overwrites it
\* with a nonzero code of its own, and nothing resets it: once a call has
\* failed the code is nonzero for good.
C34_ErrorCodeSticky ==
    /\ g_errorCode = 0
    /\ Sticky
    /\ [][\A t \in Clients :
            /\ CallFails(t) => g_errorCode' \in CodesOf(call[t].op)
            /\ g_errorCode' # g_errorCode => CallFails(Controller)]_vars

\* C34, where it fails: the first call of the process, an InitializeCache,
\* was ended by an exception that is no std::exception; it left the exported
\* function, the lock is released, no thread was started and the error code
\* is still 0.
C34_Reached ==
    /\ Returned(Controller, "init", "exception")
    /\ g_errorCode = 0
    /\ g_lastError = ""
    /\ cacheMutex = Free
    /\ bgpc = "none"
    /\ ~joinable

\* --------------------------------------------------------------------- C35
\* The installed log callback is invoked in this step, as seen from the
\* record of its last invocation.
LogInvoked == logSeen' # logSeen

\* C35: while debug mode is off (from the start, or after SetDebugMode(false))
\* no call and no step of the update thread invokes the installed log
\* callback.
C35_DebugOffSilent ==
    [][(~g_debugMode /\ ~g_debugMode') => ~LogInvoked]_vars

\* C35, where it fails: debug mode was never switched on, a log callback is
\* installed, and systemLog has invoked it from inside the locked block of
\* the update thread.
C35_Reached ==
    /\ ~g_debugMode
    /\ g_logCallback = "noop"
    /\ logSeen = "held"
    /\ bgpc = "fast"
    /\ cacheMutex = BgThread

\* --------------------------------------------------------------------- C36
\* C36: for every input the result of sanitizeString is not empty, has no
\* whitespace at either end, and is well-formed UTF-8.
C36_SanitizeWellFormed ==
    result # None =>
        /\ result[1] # <<>>
        /\ ~Blank(Head(result[1]))
        /\ ~Blank(result[1][Len(result[1])])
        /\ WellFormed(result[1])

\* What holds of every result: it is not empty, has no whitespace at either
\* end, and is "N/A" for an empty or all-blank input.
SanitizeTrimmed ==
    result # None =>
        /\ result[1] # <<>>
        /\ ~Blank(Head(result[1]))
        /\ ~Blank(result[1][Len(result[1])])
        /\ (\A i \in DOMAIN arg : Blank(arg[i])) => result[1] = NA

\* C36, where it fails: the input is the well-formed "a\xC3\xA9" (a,
\* e-acute); the lead byte is kept, its continuation byte becomes a space
\* that the trim removes, and the result ends in a lone lead byte.
C36_Reached ==
    /\ arg = <<"a", "C3", "A9">>
    /\ WellFormed(arg)
    /\ result = Got(<<"a", "C3">>)
    /\ ~WellFormed(result[1])

\* --------------------------------------------------------------------- C37
\* The WMISession has been destroyed.
Destroyed == result # None /\ ~result[1].alive

\* The calls of CoInitializeEx that succeeded during the session.
Inits == IF FAILED(arg.coInitializeEx) THEN 0 ELSE 1

\* Each interface is released at most once, and only if it was obtained.
ReleasedOnce ==
    result # None =>
        /\ result[1].locReleases <= (IF FAILED(arg.coCreateInstance) THEN 0 ELSE 1)
        /\ result[1].svcReleases <= (IF FAILED(arg.connectServer) THEN 0 ELSE 1)

\* C37: over the life of every WMISession, whatever step of
\* WMIHelper::initialize fails, initialize and the destructor together call
\* CoUninitialize as often as CoInitializeEx succeeded, and the locator and
\* the service are released at most once each.
C37_ComBalanced ==
    /\ Destroyed => result[1].uninits = Inits
    /\ ReleasedOnce

\* C37, where it fails: CoInitializeEx succeeded, CoInitializeSecurity
\* failed; initialize called CoUninitialize before it returned and the
\* destructor called it again: two calls for one initialisation.
C37_Reached ==
    /\ Destroyed
    /\ arg.coInitializeEx = "S_OK"
    /\ arg.coInitializeSecurity = "E_FAIL"
    /\ result[1].hr = "E_FAIL"
    /\ result[1].uninits = 2
    /\ result[1].locReleases = 0
    /\ result[1].svcReleases = 0
====
